---- MODULE Spec2Model ----
(***************************************************************************)
(* A model of template_customizer.core.resolver.ConfigResolver: the        *)
(* resolution of self-references ({{ values.key.path }}) inside a          *)
(* configuration tree.                                                     *)
(*                                                                         *)
(* Python objects are modelled on a heap, so that aliasing (a pure         *)
(* reference returns the referenced object itself) and in-place mutation   *)
(* (_set_nested_value) behave as in the interpreter.                       *)
(*                                                                         *)
(*   value   [t, n, s]   t = "int" | "bool" | "null" | "str" | "ref"       *)
(*                       | "undef" (jinja2 Undefined) | "method"           *)
(*                       n: the integer, 0/1 of a boolean, or the heap     *)
(*                          address of a dict or list ("ref")              *)
(*                       s: the tokens of a string                         *)
(*   token   [k, c, p, f] k = "c": the literal text c                      *)
(*                       k = "m": the marker {{ values.p1.p2 | f1 | f2 }}  *)
(*                       k = "d": that text in upper case                  *)
(*   object  [kind, ks, vs]  a dict (keys ks in insertion order, values    *)
(*                       vs) or a list (items vs)                          *)
(*   key-path             the sequence of segments key_path.split(".")     *)
(*                       yields                                            *)
(***************************************************************************)
EXTENDS Integers, Sequences, FiniteSets, TLC

VARIABLES
    heap,          \* the interpreter's dicts and lists
    config,        \* the caller's tree: the argument of resolve
    heap0,         \* the heap as it was when resolve was called
    pc,            \* where resolve is
    graph,         \* dependency_graph: a sequence of [node, deps], in insertion order
    order,         \* resolution_order
    resolved,      \* resolved_config
    iteration,     \* the local iteration of resolve
    idx,           \* position of the for loop in resolution_order
    changes_made,  \* the local changes_made of resolve
    old_value,     \* the local old_value of resolve
    max_depth,     \* self.max_depth
    cache,         \* self.resolution_cache (its keys)
    stack,         \* self.resolution_stack
    outcome,       \* what resolve returned or raised
    first,         \* the heap and the outcome of an earlier call of resolve
    second,        \* what follows the first call: the tree a second call of resolve
                   \* is given, or the stage ParameterLoader is in
    verbose,       \* self.verbose
    trace,         \* self.resolution_trace
    other          \* the locals of a run of resolve that another thread is in

vars == <<heap, config, heap0, pc, graph, order, resolved, iteration, idx,
          changes_made, old_value, max_depth, cache, stack, outcome, first, second,
          verbose, trace, other>>

----------------------------------------------------------------------------
(* Values and tokens *)

IntV(i) == [t |-> "int", n |-> i, s |-> <<>>]
BoolV(b) == [t |-> "bool", n |-> IF b THEN 1 ELSE 0, s |-> <<>>]
NullV == [t |-> "null", n |-> 0, s |-> <<>>]
StrV(toks) == [t |-> "str", n |-> 0, s |-> toks]
RefV(a) == [t |-> "ref", n |-> a, s |-> <<>>]

Ch(c) == [k |-> "c", c |-> c, p |-> <<>>, f |-> <<>>]
Mk(p, f) == [k |-> "m", c |-> "", p |-> p, f |-> f]
\* the text of a marker in upper case, {{ VALUES.P1 | F1 }}: no marker any more
Dead(p, f) == [k |-> "d", c |-> "", p |-> p, f |-> f]

\* jinja2's Undefined; s holds object_type_repr of the object the lookup failed on
UndefV(repr) == [t |-> "undef", n |-> 0, s |-> <<Ch(repr)>>]
\* a bound method, what getattr(obj, name) yields for a name the type defines
MethodV == [t |-> "method", n |-> 0, s |-> <<>>]

IsMap(h, v) == v.t = "ref" /\ h[v.n].kind = "map"
IsList(h, v) == v.t = "ref" /\ h[v.n].kind = "list"

MapObj(ks, vs) == [kind |-> "map", ks |-> ks, vs |-> vs]
ListObj(vs) == [kind |-> "list", ks |-> <<>>, vs |-> vs]

HasKey(obj, k) == \E i \in 1..Len(obj.ks) : obj.ks[i] = k
KeyIndex(obj, k) == CHOOSE i \in 1..Len(obj.ks) : obj.ks[i] = k
MapGet(obj, k) == obj.vs[KeyIndex(obj, k)]

\* d[k] = v on a dict: an existing key keeps its position, a new key is appended
MapPut(obj, k, v) ==
    IF HasKey(obj, k)
    THEN [obj EXCEPT !.vs[KeyIndex(obj, k)] = v]
    ELSE [obj EXCEPT !.ks = Append(@, k), !.vs = Append(@, v)]

Range(s) == {s[i] : i \in 1..Len(s)}

RECURSIVE Flatten(_)
Flatten(ss) == IF ss = <<>> THEN <<>> ELSE Head(ss) \o Flatten(Tail(ss))

\* The orders in which an unordered set may be iterated
RECURSIVE SeqPerms(_)
SeqPerms(S) ==
    IF S = {} THEN {<<>>}
    ELSE UNION {{<<x>> \o q : q \in SeqPerms(S \ {x})} : x \in S}

----------------------------------------------------------------------------
(* Errors *)

NoErr == [kind |-> "none", path |-> <<>>, text |-> "", cyc |-> <<>>, toks |-> <<>>, n |-> 0]
CircularReferenceError(cycle) == [NoErr EXCEPT !.kind = "CircularReferenceError", !.cyc = cycle]
\* cycle_display before " → ".join: cycle_path + [cycle_path[0]]
CycleDisplay(cycle_path) == Append(cycle_path, cycle_path[1])
\* reference = text, followed by "." and the joined path when path is not empty
ReferenceResolutionError(text, path) ==
    [NoErr EXCEPT !.kind = "ReferenceResolutionError", !.text = text, !.path = path]
MaxRecursionError(depth, key_path) ==
    [NoErr EXCEPT !.kind = "MaxRecursionError", !.n = depth, !.path = key_path]
TemplateSyntaxError(template) == [NoErr EXCEPT !.kind = "TemplateSyntaxError", !.toks = template]
\* failures that are none of the resolver's four exceptions
RecursionError == [NoErr EXCEPT !.kind = "RecursionError"]
TypeError == [NoErr EXCEPT !.kind = "TypeError"]
\* raise ValueError(...) from e: text holds the class of e, the cause
ValueError(e) == [e EXCEPT !.kind = "ValueError", !.text = e.kind]

----------------------------------------------------------------------------
(* Key-paths *)

DottedKey == "d.e"

\* key.split("."): the keys of the model hold no dot, but for DottedKey
SplitKey(k) == IF k = DottedKey THEN <<"d", "e">> ELSE <<k>>

\* ".".join(components), as the segments a later split(".") yields
JoinPath(components) == Flatten([i \in 1..Len(components) |-> SplitKey(components[i])])

RECURSIVE GetFrom(_, _, _, _)
GetFrom(h, current, keys, i) ==
    IF i > Len(keys) THEN [ok |-> TRUE, v |-> current]
    ELSE IF ~IsMap(h, current) \/ ~HasKey(h[current.n], keys[i])
         THEN [ok |-> FALSE, v |-> NullV]
         ELSE GetFrom(h, MapGet(h[current.n], keys[i]), keys, i + 1)

\* ok = FALSE stands for the KeyError
_get_nested_value(h, root, key_path) == GetFrom(h, root, key_path, 1)

_get_nested_value_safe(h, root, key_path) ==
    LET r == _get_nested_value(h, root, key_path) IN IF r.ok THEN r.v ELSE NullV

RECURSIVE SetFrom(_, _, _, _, _)
SetFrom(h, current, keys, i, value) ==
    IF ~IsMap(h, current) THEN [h |-> h, e |-> TypeError]
    ELSE IF i = Len(keys)
         THEN [h |-> [h EXCEPT ![current.n] = MapPut(@, keys[i], value)], e |-> NoErr]
         ELSE IF HasKey(h[current.n], keys[i])
              THEN SetFrom(h, MapGet(h[current.n], keys[i]), keys, i + 1, value)
              ELSE LET fresh == Len(h) + 1
                       h2 == Append([h EXCEPT ![current.n] = MapPut(@, keys[i], RefV(fresh))],
                                    MapObj(<<>>, <<>>))
                   IN SetFrom(h2, RefV(fresh), keys, i + 1, value)

\* The value is set under the last key of the key-path in the root dict
SetAtRoot(h, root, key_path, value) ==
    [h |-> [h EXCEPT ![root.n] = MapPut(@, key_path[Len(key_path)], value)], e |-> NoErr]

\* config is mutated in place: the heap changes, the root stays
_set_nested_value(h, root, key_path, value) == SetFrom(h, root, key_path, 1, value)

\* The containers a recursion may be inside of before the interpreter raises
\* RecursionError: sys.getrecursionlimit(), scaled down
RecursionLimit == 100

\* onpath holds the containers the recursion is inside of: meeting one of them
\* again the recursion never ends, and RecursionError is what comes of it
TooDeep(at, onpath) == at \in onpath \/ Cardinality(onpath) >= RecursionLimit

\* [h, v, e]: the heap with the copies, the copy, the exception raised. The
\* items of obj from i on are copied in turn onto the heap hc, acc holds the
\* copies made; h is the heap before the copy of obj began
RECURSIVE DeepCopyFrom(_, _, _, _, _, _)
DeepCopyFrom(h, obj, hc, onpath, i, acc) ==
    LET c == DeepCopyFrom(hc, h[obj.n].vs[i], hc, onpath \cup {obj.n}, 1, <<>>)
    IN CASE obj.t # "ref" -> [h |-> h, v |-> obj, e |-> NoErr]
         [] TooDeep(obj.n, onpath) -> [h |-> h, v |-> obj, e |-> RecursionError]
         [] i > Len(h[obj.n].vs) ->
                [h |-> Append(hc, [h[obj.n] EXCEPT !.vs = acc]),
                 v |-> RefV(Len(hc) + 1), e |-> NoErr]
         [] c.e # NoErr -> [h |-> h, v |-> obj, e |-> c.e]
         [] OTHER -> DeepCopyFrom(h, obj, c.h, onpath, i + 1, Append(acc, c.v))

DeepCopy(h, obj, onpath) == DeepCopyFrom(h, obj, h, onpath, 1, <<>>)

_deep_copy(h, obj) == DeepCopy(h, obj, {})

----------------------------------------------------------------------------
(* The reference scanner *)

\* The filters of jinja_env the model uses (str.lower, str.upper)
Filters == {"lower", "upper"}

\* The path segments of the model that are no identifier ([a-zA-Z_][a-zA-Z0-9_]*)
BadSegments == {"a b"}
IsIdent(seg) == seg \notin BadSegments

RECURSIVE FilterText(_)
FilterText(f) == IF f = <<>> THEN "" ELSE " | " \o Head(f) \o FilterText(Tail(f))

\* Group 1 of REFERENCE_PATTERN for one marker, stripped: all the text between
\* "values." and the closing braces, the filter pipeline included
MarkerText(tok) ==
    [i \in 1..Len(tok.p) |-> IF i = Len(tok.p) THEN tok.p[i] \o FilterText(tok.f) ELSE tok.p[i]]

IsMarker(tok) == tok.k = "m"

_detect_references(value) ==
    IF value.t # "str" THEN <<>>
    ELSE LET ms == SelectSeq(value.s, IsMarker)
         IN [i \in 1..Len(ms) |-> MarkerText(ms[i])]

----------------------------------------------------------------------------
(* The dependency graph *)

GraphHas(g, node) == \E i \in 1..Len(g) : g[i].node = node
GraphIndex(g, node) == CHOOSE i \in 1..Len(g) : g[i].node = node
GraphKeys(g) == [i \in 1..Len(g) |-> g[i].node]
\* graph.get(node, set())
GraphDeps(g, node) == IF GraphHas(g, node) THEN g[GraphIndex(g, node)].deps ELSE {}

\* graph[current_path].update(refs) on the defaultdict
GraphUpdate(g, node, refs) ==
    IF GraphHas(g, node)
    THEN [g EXCEPT ![GraphIndex(g, node)].deps = @ \cup Range(refs)]
    ELSE Append(g, [node |-> node, deps |-> Range(refs)])

\* The graph, or NoGraph for the RecursionError of a scan that never ends
NoGraph == <<[node |-> <<>>, deps |-> {}]>>

\* i is the position of the for loop over obj.items(); onpath holds the dicts
\* the scan is inside of
RECURSIVE scan_dict(_, _, _, _, _, _)
RECURSIVE ScanList(_, _, _, _, _, _)
scan_dict(h, g, obj, path_components, i, onpath) ==
    IF g = NoGraph \/ i > Len(h[obj.n].ks) THEN g
    ELSE IF TooDeep(obj.n, onpath) THEN NoGraph
    ELSE LET value == h[obj.n].vs[i]
             current_components == Append(path_components, h[obj.n].ks[i])
             inside == onpath \cup {obj.n}
             g2 == IF IsMap(h, value) THEN scan_dict(h, g, value, current_components, 1, inside)
                   ELSE IF IsList(h, value)
                   THEN ScanList(h, g, value, current_components, 1, inside)
                   ELSE GraphUpdate(g, JoinPath(current_components), _detect_references(value))
         IN scan_dict(h, g2, obj, path_components, i + 1, onpath)

ScanList(h, g, list, current_components, j, inside) ==
    IF g = NoGraph \/ j > Len(h[list.n].vs) THEN g
    ELSE LET item == h[list.n].vs[j]
             g2 == IF IsMap(h, item) THEN scan_dict(h, g, item, current_components, 1, inside)
                   ELSE GraphUpdate(g, JoinPath(current_components), _detect_references(item))
         IN ScanList(h, g2, list, current_components, j + 1, inside)

_build_dependency_graph(h, root) == scan_dict(h, <<>>, root, <<>>, 1, {})

----------------------------------------------------------------------------
(* The cycle detector *)

\* One iteration order for each dependency set of the graph
RECURSIVE DepOrders(_, _)
DepOrders(g, i) ==
    IF i > Len(g) THEN {<<>>}
    ELSE {<<q>> \o rest : q \in SeqPerms(g[i].deps), rest \in DepOrders(g, i + 1)}

FirstIndex(path, node) == CHOOSE i \in 1..Len(path) : path[i] = node /\ \A j \in 1..(i - 1) : path[j] # node

\* st = [visited, rec_stack, cycle]; cycle = <<>> stands for None
RECURSIVE dfs(_, _, _, _, _)
RECURSIVE DfsDeps(_, _, _, _, _, _, _)
dfs(g, ords, node, path, st) ==
    IF node \in st.rec_stack
    THEN [st EXCEPT !.cycle = SubSeq(path, FirstIndex(path, node), Len(path))]
    ELSE IF node \in st.visited THEN st
    ELSE LET st1 == [st EXCEPT !.visited = @ \cup {node}, !.rec_stack = @ \cup {node}]
             deps == IF GraphHas(g, node) THEN ords[GraphIndex(g, node)] ELSE <<>>
             st2 == DfsDeps(g, ords, node, path, st1, deps, 1)
         IN IF st2.cycle # <<>> THEN st2 ELSE [st2 EXCEPT !.rec_stack = @ \ {node}]

DfsDeps(g, ords, node, path, st, deps, i) ==
    IF i > Len(deps) THEN st
    ELSE LET st2 == dfs(g, ords, deps[i], Append(path, deps[i]), st)
         IN IF st2.cycle # <<>> THEN st2 ELSE DfsDeps(g, ords, node, path, st2, deps, i + 1)

RECURSIVE DetectFrom(_, _, _, _)
DetectFrom(g, ords, i, st) ==
    IF i > Len(g) THEN st
    ELSE IF g[i].node \in st.visited THEN DetectFrom(g, ords, i + 1, st)
    ELSE LET st2 == dfs(g, ords, g[i].node, <<g[i].node>>, st)
         IN IF st2.cycle # <<>> THEN st2 ELSE DetectFrom(g, ords, i + 1, st2)

\* The cycle found when the dependency sets are iterated in the orders ords, or <<>>
_detect_circular_dependencies(g, ords) ==
    DetectFrom(g, ords, 1, [visited |-> {}, rec_stack |-> {}, cycle |-> <<>>]).cycle

----------------------------------------------------------------------------
(* The topological sorter *)

AllNodes(g) == Range(GraphKeys(g)) \cup UNION {g[i].deps : i \in 1..Len(g)}

\* An in-degree that counts the nodes that depend on a node
InDependents(g) == [node \in AllNodes(g) |-> Cardinality({i \in 1..Len(g) : node \in g[i].deps})]

\* in_degree after the two loops: the number of dependencies of a node
InDegree(g) == [node \in AllNodes(g) |-> Cardinality(GraphDeps(g, node))]

\* The list comprehension over the set all_nodes: its zero in-degree nodes, in
\* one of the orders the set may be iterated in
InitialQueues(g) == SeqPerms({node \in AllNodes(g) : InDegree(g)[node] = 0})

\* st = [queue, in_degree]
RECURSIVE ReduceDependents(_, _, _, _)
ReduceDependents(g, node, i, st) ==
    IF i > Len(g) THEN st
    ELSE LET dependent == g[i].node
             st2 == IF node \in g[i].deps
                    THEN [queue |-> IF st.in_degree[dependent] - 1 = 0
                                    THEN Append(st.queue, dependent) ELSE st.queue,
                          in_degree |-> [st.in_degree EXCEPT ![dependent] = @ - 1]]
                    ELSE st
         IN ReduceDependents(g, node, i + 1, st2)

RECURSIVE TopoLoop(_, _, _)
TopoLoop(g, st, result) ==
    IF st.queue = <<>> THEN result
    ELSE LET node == Head(st.queue)
         IN TopoLoop(g, ReduceDependents(g, node, 1, [st EXCEPT !.queue = Tail(@)]),
                     Append(result, node))

_topological_sort(g, queue) == TopoLoop(g, [queue |-> queue, in_degree |-> InDegree(g)], <<>>)

----------------------------------------------------------------------------
(* jinja2: Environment.from_string(value).render(values=resolved_config),   *)
(* with the default (lenient) Undefined                                    *)

\* Names that getattr finds on the Python type itself, before jinja2 tries obj[name]
DictAttrs == {"items", "keys", "values", "get", "copy", "pop", "update", "clear"}
ListAttrs == {"append", "count", "index", "pop", "sort", "copy", "clear"}
StrAttrs == {"lower", "upper", "title", "count", "index", "find", "format", "split", "strip"}
IntAttrs == {"real", "imag", "numerator", "denominator"}

\* jinja2.utils.object_type_repr
TypeRepr(h, obj) ==
    CASE obj.t = "null" -> "None"
      [] obj.t = "int" -> "int object"
      [] obj.t = "bool" -> "bool object"
      [] obj.t = "str" -> "str object"
      [] obj.t = "method" -> "builtin_function_or_method object"
      [] IsMap(h, obj) -> "dict object"
      [] OTHER -> "list object"

\* Environment.getattr(obj, attribute) on a defined object
JinjaGetattr(h, obj, name) ==
    CASE IsMap(h, obj) ->
            IF name \in DictAttrs THEN MethodV
            ELSE IF HasKey(h[obj.n], name) THEN MapGet(h[obj.n], name)
            ELSE UndefV(TypeRepr(h, obj))
      [] IsList(h, obj) -> IF name \in ListAttrs THEN MethodV ELSE UndefV(TypeRepr(h, obj))
      [] obj.t = "str" -> IF name \in StrAttrs THEN MethodV ELSE UndefV(TypeRepr(h, obj))
      [] obj.t \in {"int", "bool"} ->
            IF name \in IntAttrs THEN MethodV ELSE UndefV(TypeRepr(h, obj))
      [] OTHER -> UndefV(TypeRepr(h, obj))

\* values.p1.p2...: an attribute of an Undefined raises UndefinedError, whose
\* message is "'<type repr>' has no attribute '<name>'"; str(e).split("'")[1]
\* is the type repr, and that is what ReferenceResolutionError is given
RECURSIVE JinjaLookup(_, _, _, _)
JinjaLookup(h, obj, p, i) ==
    IF i > Len(p) THEN [v |-> obj, e |-> NoErr]
    ELSE IF obj.t = "undef"
         THEN [v |-> obj, e |-> ReferenceResolutionError(obj.s[1].c, <<>>)]
         ELSE JinjaLookup(h, JinjaGetattr(h, obj, p[i]), p, i + 1)

LowerChunk(c) ==
    CASE c = "X" -> "x" [] c = "True" -> "true" [] c = "False" -> "false"
      [] c = "None" -> "none" [] OTHER -> c

UpperChunk(c) ==
    CASE c = "x" -> "X" [] c = "True" -> "TRUE" [] c = "False" -> "FALSE"
      [] c = "None" -> "NONE" [] c = "true" -> "TRUE" [] c = "false" -> "FALSE"
      [] c = "none" -> "NONE" [] OTHER -> c

\* str.lower and str.upper, token by token: the keys and the filter names of
\* the model are in lower case, so lower leaves a marker as it is and upper
\* turns it into text that REFERENCE_PATTERN no longer matches
LowerTok(tok) ==
    CASE tok.k = "c" -> Ch(LowerChunk(tok.c)) [] tok.k = "d" -> Mk(tok.p, tok.f) [] OTHER -> tok

UpperTok(tok) ==
    CASE tok.k = "c" -> Ch(UpperChunk(tok.c)) [] tok.k = "m" -> Dead(tok.p, tok.f) [] OTHER -> tok

\* str.lower(v), str.upper(v): a TypeError unless v is a str
ApplyFilter(name, v) ==
    IF v.t # "str" THEN [v |-> v, e |-> TypeError]
    ELSE [v |-> StrV([i \in 1..Len(v.s) |-> IF name = "lower" THEN LowerTok(v.s[i])
                                            ELSE UpperTok(v.s[i])]),
          e |-> NoErr]

RECURSIVE ApplyFilters(_, _, _)
ApplyFilters(f, i, v) ==
    IF i > Len(f) THEN [v |-> v, e |-> NoErr]
    ELSE LET r == ApplyFilter(f[i], v)
         IN IF r.e # NoErr THEN r ELSE ApplyFilters(f, i + 1, r.v)

\* repr(v); seen holds the containers being printed ("[...]", "{...}")
RECURSIVE PyRepr(_, _, _)
RECURSIVE ReprItems(_, _, _, _)
PyRepr(h, v, seen) ==
    CASE v.t = "int" -> <<Ch(ToString(v.n))>>
      [] v.t = "bool" -> <<Ch(IF v.n = 1 THEN "True" ELSE "False")>>
      [] v.t = "null" -> <<Ch("None")>>
      [] v.t = "str" -> <<Ch("'")>> \o v.s \o <<Ch("'")>>
      [] v.t = "method" -> <<Ch("<built-in method>")>>
      [] v.t = "undef" -> <<Ch("Undefined")>>
      [] IsMap(h, v) ->
            IF v.n \in seen THEN <<Ch("{...}")>>
            ELSE <<Ch("{")>> \o ReprItems(h, v, seen \cup {v.n}, 1) \o <<Ch("}")>>
      [] OTHER ->
            IF v.n \in seen THEN <<Ch("[...]")>>
            ELSE <<Ch("[")>> \o ReprItems(h, v, seen \cup {v.n}, 1) \o <<Ch("]")>>

ReprItems(h, v, seen, i) ==
    IF i > Len(h[v.n].vs) THEN <<>>
    ELSE (IF i > 1 THEN <<Ch(", ")>> ELSE <<>>)
         \o (IF h[v.n].kind = "map" THEN <<Ch("'"), Ch(h[v.n].ks[i]), Ch("'"), Ch(": ")>> ELSE <<>>)
         \o PyRepr(h, h[v.n].vs[i], seen)
         \o ReprItems(h, v, seen, i + 1)

\* str(v), what a print statement of the template emits
PyStr(h, v) ==
    CASE v.t = "str" -> v.s
      [] v.t = "undef" -> <<>>
      [] OTHER -> PyRepr(h, v, {})

\* The parser rejects a marker whose path is not dotted identifiers, and the
\* compiler a filter the environment does not know (LOWER, UPPER)
WellFormed(tok) ==
    CASE tok.k = "c" -> TRUE
      [] tok.k = "d" -> tok.f = <<>>
      [] OTHER -> (\A i \in 1..Len(tok.p) : IsIdent(tok.p[i]))
                  /\ (\A i \in 1..Len(tok.f) : tok.f[i] \in Filters)

\* One print statement of the template: [out, e]
RenderToken(h, root, tok) ==
    IF tok.k = "c" THEN [out |-> <<tok>>, e |-> NoErr]
    ELSE IF tok.k = "d"
         \* {{ VALUES.P }}: the name VALUES is undefined and its attribute is asked for
         THEN [out |-> <<>>, e |-> ReferenceResolutionError("VALUES", <<>>)]
    ELSE LET looked == JinjaLookup(h, root, tok.p, 1)
             piped == ApplyFilters(tok.f, 1, looked.v)
         IN IF looked.e # NoErr THEN [out |-> <<>>, e |-> looked.e]
            ELSE IF piped.e # NoErr THEN [out |-> <<>>, e |-> piped.e]
            ELSE [out |-> PyStr(h, piped.v), e |-> NoErr]

\* The concatenation of ss[lo..hi]
RECURSIVE Concat(_, _, _)
Concat(ss, lo, hi) ==
    IF lo > hi THEN <<>>
    ELSE IF lo = hi THEN ss[lo]
    ELSE LET mid == (lo + hi) \div 2 IN Concat(ss, lo, mid) \o Concat(ss, mid + 1, hi)

\* The template is rendered from left to right: the first failing print
\* statement decides the exception
RenderTokens(h, root, toks) ==
    LET parts == [i \in 1..Len(toks) |-> RenderToken(h, root, toks[i])]
        failed == {i \in 1..Len(toks) : parts[i].e # NoErr}
    IN IF failed # {}
       THEN [v |-> NullV, e |-> parts[CHOOSE i \in failed : \A j \in failed : i <= j].e]
       ELSE [v |-> StrV(Concat([i \in 1..Len(toks) |-> parts[i].out], 1, Len(toks))),
             e |-> NoErr]

\* [v, e]: the rendered string, or the exception as _resolve_value translates it
JinjaRender(h, root, value) ==
    IF \E i \in 1..Len(value.s) : ~WellFormed(value.s[i])
    THEN [v |-> NullV, e |-> TemplateSyntaxError(value.s)]
    ELSE RenderTokens(h, root, value.s)

----------------------------------------------------------------------------
(* The value resolver *)

IsSpace(tok) == tok.k = "c" /\ tok.c = " "

RECURSIVE Strip(_)
Strip(toks) ==
    IF toks = <<>> THEN toks
    ELSE IF IsSpace(Head(toks)) THEN Strip(Tail(toks))
    ELSE IF IsSpace(toks[Len(toks)]) THEN Strip(SubSeq(toks, 1, Len(toks) - 1))
    ELSE toks

\* pure_reference_match: optional white space, one marker of dotted identifiers
\* with no filter, optional white space
IsPureReference(value) ==
    LET toks == Strip(value.s)
    IN Len(toks) = 1 /\ toks[1].k = "m" /\ toks[1].f = <<>>
       /\ \A i \in 1..Len(toks[1].p) : IsIdent(toks[1].p[i])

PureReferencePath(value) == Strip(value.s)[1].p

\* [h, v, e]: the heap with the dicts and lists the call built, the resolved
\* value, the exception raised. onpath holds the containers the recursion is
\* inside of: meeting one of them again, the recursion of the code never ends
\* and the interpreter raises RecursionError
RECURSIVE ResolveFrom(_, _, _, _, _, _, _)
\* The str branch of _resolve_value
ResolveStr(h, value, root) ==
    IF _detect_references(value) = <<>> THEN [h |-> h, v |-> value, e |-> NoErr]
    ELSE IF IsPureReference(value)
         THEN LET ref_path == PureReferencePath(value)
                  got == _get_nested_value(h, root, ref_path)
              IN IF got.ok THEN [h |-> h, v |-> got.v, e |-> NoErr]
                 ELSE [h |-> h, v |-> value, e |-> ReferenceResolutionError("values", ref_path)]
         ELSE LET r == JinjaRender(h, root, value)
              IN [h |-> h, v |-> r.v, e |-> r.e]

\* _resolve_value with the state of its loop: the items of the dict or list
\* value from i on are resolved in turn onto the heap hr, acc holds the
\* resolved ones; h is the heap before value was entered
ResolveFrom(h, value, hr, root, onpath, i, acc) ==
    LET r == ResolveFrom(hr, h[value.n].vs[i], hr, root, onpath \cup {value.n}, 1, <<>>)
    IN CASE value.t = "str" -> ResolveStr(h, value, root)
         [] value.t # "ref" -> [h |-> h, v |-> value, e |-> NoErr]
         [] TooDeep(value.n, onpath) -> [h |-> h, v |-> value, e |-> RecursionError]
         [] i > Len(h[value.n].vs) ->
                [h |-> Append(hr, [h[value.n] EXCEPT !.vs = acc]),
                 v |-> RefV(Len(hr) + 1), e |-> NoErr]
         [] r.e # NoErr -> [h |-> h, v |-> value, e |-> r.e]
         [] OTHER -> ResolveFrom(h, value, r.h, root, onpath, i + 1, Append(acc, r.v))

_resolve_value(h, value, root, onpath) == ResolveFrom(h, value, h, root, onpath, 1, <<>>)

----------------------------------------------------------------------------
(* old_value != new_value *)

\* a == b in Python. Inside a container two items that are the same object
\* count as equal without being compared; onpath holds the pairs of containers
\* the comparison is inside of (a pair met again: RecursionError). The result
\* is "eq", "ne" or "RecursionError"
RECURSIVE PyEqFrom(_, _, _, _, _)
\* The items of a from i on are compared in turn with those of b
PyEqFrom(h, a, b, onpath, i) ==
    LET x == h[a.n].vs[i]
        y == IF h[a.n].kind = "map" THEN MapGet(h[b.n], h[a.n].ks[i]) ELSE h[b.n].vs[i]
        one == PyEqFrom(h, x, y, onpath \cup {<<a.n, b.n>>}, 1)
    IN CASE a.t \in {"int", "bool"} /\ b.t \in {"int", "bool"} -> IF a.n = b.n THEN "eq" ELSE "ne"
         [] a.t # "ref" \/ b.t # "ref" -> IF a = b THEN "eq" ELSE "ne"
         [] h[a.n].kind # h[b.n].kind \/ Len(h[a.n].vs) # Len(h[b.n].vs) -> "ne"
         [] h[a.n].kind = "map" /\ Range(h[a.n].ks) # Range(h[b.n].ks) -> "ne"
         [] TooDeep(<<a.n, b.n>>, onpath) -> "RecursionError"
         [] i > Len(h[a.n].vs) -> "eq"
         [] x.t = "ref" /\ x = y -> PyEqFrom(h, a, b, onpath, i + 1)
         [] one # "eq" -> one
         [] OTHER -> PyEqFrom(h, a, b, onpath, i + 1)

PyEq(h, a, b, onpath) == PyEqFrom(h, a, b, onpath, 1)

----------------------------------------------------------------------------
(* The configurations resolve is called on *)

\* The keys of the root dict, in insertion order: a configuration has the first n of them
KeyNames == <<"a", "b", "c">>

\* The bound on the markers and the nested containers of a configuration
MaxWeight == 3

Scalars == {IntV(3), BoolV(TRUE), NullV, StrV(<<Ch("X")>>)}

\* "{{ values.p }}", "{{ values.p }}X", "{{ values.p | lower }}"
PureRef(p) == StrV(<<Mk(p, <<>>)>>)
Interpolated(p) == StrV(<<Mk(p, <<>>), Ch("X")>>)
Filtered(p) == StrV(<<Mk(p, <<"lower">>)>>)
\* "{{ values.a b }}"
Malformed == StrV(<<Mk(<<"a b">>, <<>>)>>)

\* The strings with a marker: the key-paths looked up are those of the keys, of
\* the leaf of a nested dict, and one whose first segment is no key
Marked ==
    {PureRef(p) : p \in {<<"a">>, <<"b">>, <<"c">>, <<"a", "x">>, <<"z", "x">>}}
    \cup {Interpolated(p) : p \in {<<"a">>, <<"b">>, <<"c">>, <<"z", "x">>}}
    \cup {Filtered(p) : p \in {<<"a">>, <<"b">>}}
    \cup {Malformed}

\* The leaves inside a container
Nested ==
    {IntV(3), PureRef(<<"a">>), PureRef(<<"b">>), Interpolated(<<"c">>), Filtered(<<"b">>)}

\* A value of the configuration: leaf itself, {x: leaf}, [leaf], [{x: leaf}] or [[leaf]]
Shapes == {"map", "list", "listmap", "listlist"}
Descs == [shape : {"leaf"}, leaf : Scalars \cup Marked] \cup [shape : Shapes, leaf : Nested]

\* [[leaf], "{{ values.c }}"]: a list of a list and a pure reference
Pair(leaf) == [shape |-> "pair", leaf |-> leaf]
Leaf(leaf) == [shape |-> "leaf", leaf |-> leaf]

Weight(d) ==
    (IF d.leaf.t = "str" /\ _detect_references(d.leaf) # <<>> THEN 1 ELSE 0)
    + (CASE d.shape = "leaf" -> 0 [] d.shape \in {"map", "list"} -> 1 [] OTHER -> 2)

RECURSIVE TotalWeight(_)
TotalWeight(ds) == IF ds = <<>> THEN 0 ELSE Weight(Head(ds)) + TotalWeight(Tail(ds))

\* The last key holds a leaf: it is the one the interpolated strings inside the
\* containers name
Configs ==
    UNION {{ds \in [1..n -> Descs] :
                /\ TotalWeight(ds) <= MaxWeight
                /\ (n = Len(KeyNames) => ds[n].shape = "leaf")} : n \in 0..Len(KeyNames)}

\* Configurations with a list of two items
Scenarios ==
    {<<Pair(Filtered(<<"b">>)), Leaf(Interpolated(<<"c">>)), Leaf(StrV(<<Ch("X")>>))>>,
     <<Pair(IntV(3)), Leaf(PureRef(<<"a">>)), Leaf(NullV)>>}

\* The heap that holds the tree ds describes; the root dict is at address 1
RECURSIVE BuildHeap(_, _, _)
BuildHeap(ds, i, h) ==
    IF i > Len(ds) THEN h
    ELSE LET d == ds[i]
             at == Len(h) + 1
             objs == CASE d.shape = "leaf" -> <<>>
                       [] d.shape = "map" -> <<MapObj(<<"x">>, <<d.leaf>>)>>
                       [] d.shape = "list" -> <<ListObj(<<d.leaf>>)>>
                       [] d.shape = "listmap" ->
                              <<ListObj(<<RefV(at + 1)>>), MapObj(<<"x">>, <<d.leaf>>)>>
                       [] d.shape = "listlist" ->
                              <<ListObj(<<RefV(at + 1)>>), ListObj(<<d.leaf>>)>>
                       [] OTHER ->
                              <<ListObj(<<RefV(at + 1), PureRef(<<"c">>)>>), ListObj(<<d.leaf>>)>>
             value == IF d.shape = "leaf" THEN d.leaf ELSE RefV(at)
             h2 == [h EXCEPT ![1] = MapPut(@, KeyNames[i], value)] \o objs
         IN BuildHeap(ds, i + 1, h2)

ConfigHeap(ds) == BuildHeap(ds, 1, <<MapObj(<<>>, <<>>)>>)

\* The longest chain of references: more keys than max_iterations, and than
\* the smaller values of max_depth
MaxChain == 7

ChainKey(i) == "k" \o ToString(i)

\* {"k1": "X", "k2": "{{ values.k1 }}X", ..., "kn": "{{ values.k<n-1> }}X"}: each
\* value is an interpolated reference to the one before it. In the chain
\* "lower" the last value is "{{ values.k<n-1> | lower }}" instead
Chain(n, last) ==
    MapObj([i \in 1..n |-> ChainKey(i)],
           [i \in 1..n |-> IF i = 1 THEN StrV(<<Ch("X")>>)
                           ELSE IF i = n /\ last = "lower" THEN Filtered(<<ChainKey(i - 1)>>)
                           ELSE Interpolated(<<ChainKey(i - 1)>>)])

Chains == {<<Chain(n, last)>> : n \in 1..MaxChain, last \in {"plain", "lower"}}

\* The keys of the trees that stand for a dependency graph, and the key-paths
\* their references name: the keys, and a key-path that is not declared
GraphKeyNames == <<"k1", "k2", "k3">>
GraphTargets == GraphKeyNames \o <<"k4">>

\* {"k1": ..., "k2": ..., "k3": ...} where the value of a key that depends on
\* nothing is "X", and that of a key that depends on the key-paths deps[i] the
\* list of the pure references to them: the graph of the tree has the edges deps
DepHeap(deps) ==
    LET listed == SelectSeq([i \in 1..Len(GraphKeyNames) |-> i], LAMBDA i : deps[i] # {})
        At(i) == 1 + CHOOSE n \in 1..Len(listed) : listed[n] = i
        Refs(i) == SelectSeq(GraphTargets, LAMBDA t : t \in deps[i])
    IN <<MapObj(GraphKeyNames,
                [i \in 1..Len(GraphKeyNames) |->
                    IF deps[i] = {} THEN StrV(<<Ch("X")>>) ELSE RefV(At(i))])>>
       \o [n \in 1..Len(listed) |->
              ListObj([j \in 1..Len(Refs(listed[n])) |-> PureRef(<<Refs(listed[n])[j]>>)])]

DepHeaps == {DepHeap(deps) : deps \in [1..Len(GraphKeyNames) -> SUBSET Range(GraphTargets)]}

\* "{{ values.b": a marker that is never closed, which REFERENCE_PATTERN does
\* not match; to the resolver it is text like any other
Unclosed == StrV(<<Ch("{{ values.b")>>)

----------------------------------------------------------------------------
(* resolve *)

max_iterations == 5
DefaultMaxDepth == 10

Pending == [status |-> "pending", v |-> NullV, e |-> NoErr]
Returned(v) == [status |-> "returned", v |-> v, e |-> NoErr]
Raised(e) == [status |-> "raised", v |-> NullV, e |-> e]

NoCall == [h |-> <<>>, config |-> NullV, outcome |-> Pending]

\* The values ConfigResolver is constructed with, next to the default
MaxDepths == {1, 2, DefaultMaxDepth}

\* The locals of a run of resolve; NoRun when no other thread is in resolve
NoRun ==
    [config |-> NullV, pc |-> "none", graph |-> <<>>, order |-> <<>>, resolved |-> NullV,
     iteration |-> 0, idx |-> 0, changes_made |-> FALSE, old_value |-> NullV,
     outcome |-> Pending]
NewRun(root) == [NoRun EXCEPT !.config = root, !.pc = "call"]

\* The lines of resolution_trace. The names ", ".join(deps) puts in a line are
\* kept as the set they are taken from
TraceLine(line, n, node, deps) == [line |-> line, n |-> n, node |-> node, deps |-> deps]

HasDeps(line) == line.deps # {}

\* What resolve appends when the graph is built: a line for the graph, and one
\* for each node that depends on something
GraphLines(g) ==
    <<TraceLine("Built dependency graph", Len(g), <<>>, {})>>
    \o SelectSeq([i \in 1..Len(g) |-> TraceLine("depends on", 0, g[i].node, g[i].deps)], HasDeps)

\* The last line of the trace, which is printed when it is appended
Completed(n) == TraceLine("Resolution completed", n, <<>>, {})

\* A new resolver, and the tree its caller is about to pass
StartOn(heaps, depths) ==
    /\ heap \in heaps
    /\ max_depth \in depths
    /\ config = RefV(1)
    /\ heap0 = heap
    /\ pc = "call"
    /\ graph = <<>>
    /\ order = <<>>
    /\ resolved = NullV
    /\ iteration = 0
    /\ idx = 0
    /\ changes_made = FALSE
    /\ old_value = NullV
    /\ cache = {}
    /\ stack = <<>>
    /\ outcome = Pending
    /\ first = NoCall
    /\ second = "none"
    /\ verbose = FALSE
    /\ trace = <<>>
    /\ other = NoRun

\* ConfigResolver() and one of the trees
Start(trees) == StartOn({ConfigHeap(ds) : ds \in trees}, {DefaultMaxDepth})

Init ==
    \/ Start(Configs \cup Scenarios)
    \/ StartOn(Chains, MaxDepths)
    \/ StartOn({<<MapObj(<<"a", "b">>, <<Unclosed, StrV(<<Ch("X")>>)>>)>>,
                ConfigHeap(<<[shape |-> "listmap", leaf |-> Malformed]>>)}, {DefaultMaxDepth})

\* not config
Falsy(h, v) == v.t = "null" \/ (v.t = "ref" /\ h[v.n].vs = <<>>)

\* resolve that goes on with what the call before left in the cache, on the
\* stack and in the trace
CallWithoutReset ==
    /\ pc = "call"
    /\ IF Falsy(heap, config)
       THEN outcome' = Returned(config) /\ pc' = "done" /\ UNCHANGED <<graph, trace>>
       ELSE /\ graph' = _build_dependency_graph(heap, config)
            /\ IF graph' = NoGraph
               THEN outcome' = Raised(RecursionError) /\ pc' = "done" /\ UNCHANGED trace
               ELSE /\ outcome' = outcome
                    /\ pc' = "graph"
                    /\ trace' = IF verbose THEN trace \o GraphLines(graph') ELSE trace
    /\ UNCHANGED <<heap, config, heap0, order, resolved, iteration, idx, changes_made,
                   old_value, max_depth, cache, stack, first, second, verbose, other>>

\* resolve, to the dependency graph: an empty configuration is returned as it is
Call ==
    /\ pc = "call"
    /\ IF Falsy(heap, config)
       THEN /\ outcome' = Returned(config)
            /\ pc' = "done"
            /\ UNCHANGED <<graph, cache, stack, trace>>
       ELSE /\ cache' = {}
            /\ stack' = <<>>
            /\ graph' = _build_dependency_graph(heap, config)
            /\ IF graph' = NoGraph
               THEN outcome' = Raised(RecursionError) /\ pc' = "done" /\ trace' = <<>>
               ELSE /\ outcome' = outcome
                    /\ pc' = "graph"
                    /\ trace' = IF verbose THEN GraphLines(graph') ELSE <<>>
    /\ UNCHANGED <<heap, config, heap0, order, resolved, iteration, idx, changes_made,
                   old_value, max_depth, first, second, verbose, other>>

\* A check that lets a key-path that refers to itself pass: the cycle of the
\* detector is then the key-path, twice
CheckCyclesOfTwo ==
    /\ pc = "graph"
    /\ \E ords \in DepOrders(graph, 1) :
          LET cycle == _detect_circular_dependencies(graph, ords)
          IN IF Len(cycle) > 2
             THEN outcome' = Raised(CircularReferenceError(cycle)) /\ pc' = "done"
             ELSE outcome' = outcome /\ pc' = "sort"
    /\ UNCHANGED <<heap, config, heap0, graph, order, resolved, iteration, idx, changes_made,
                   old_value, max_depth, cache, stack, first, second, verbose, trace, other>>

\* The check for circular dependencies
CheckCycles ==
    /\ pc = "graph"
    /\ \E ords \in DepOrders(graph, 1) :
          LET cycle == _detect_circular_dependencies(graph, ords)
          IN IF cycle # <<>>
             THEN outcome' = Raised(CircularReferenceError(cycle)) /\ pc' = "done"
             ELSE outcome' = outcome /\ pc' = "sort"
    /\ UNCHANGED <<heap, config, heap0, graph, order, resolved, iteration, idx, changes_made,
                   old_value, max_depth, cache, stack, first, second, verbose, trace, other>>

\* A trace that takes the key-paths out of the resolution order to print them
SortDrainedByTrace ==
    /\ pc = "sort"
    /\ \E queue \in InitialQueues(graph) :
          LET sorted == _topological_sort(graph, queue)
          IN /\ order' = IF verbose THEN <<>> ELSE sorted
             /\ trace' = IF verbose THEN Append(trace, TraceLine("Resolution order", 0, sorted, {}))
                                    ELSE trace
    /\ LET c == _deep_copy(heap, config)
       IN IF c.e # NoErr
          THEN outcome' = Raised(c.e) /\ pc' = "done" /\ UNCHANGED <<heap, resolved>>
          ELSE heap' = c.h /\ resolved' = c.v /\ pc' = "while" /\ UNCHANGED outcome
    /\ iteration' = 0
    /\ UNCHANGED <<config, heap0, graph, idx, changes_made, old_value, max_depth, cache,
                   stack, first, second, verbose, other>>

\* The resolution order and the deep copy
Sort ==
    /\ pc = "sort"
    /\ \E queue \in InitialQueues(graph) : order' = _topological_sort(graph, queue)
    /\ LET c == _deep_copy(heap, config)
       IN IF c.e # NoErr
          THEN /\ outcome' = Raised(c.e)
               /\ pc' = "done"
               /\ UNCHANGED <<heap, resolved>>
          ELSE /\ heap' = c.h
               /\ resolved' = c.v
               /\ pc' = "while"
               /\ UNCHANGED outcome
    /\ trace' = IF verbose THEN Append(trace, TraceLine("Resolution order", 0, order', {}))
                         ELSE trace
    /\ iteration' = 0
    /\ UNCHANGED <<config, heap0, graph, idx, changes_made, old_value, max_depth, cache,
                   stack, first, second, verbose, other>>

\* while iteration < max_iterations: the start of a pass, or the return
While ==
    /\ pc = "while"
    /\ IF iteration < max_iterations
       THEN /\ changes_made' = FALSE
            /\ cache' = {}
            /\ idx' = 1
            /\ pc' = "for"
            /\ UNCHANGED <<outcome, trace>>
       ELSE /\ outcome' = Returned(resolved)
            /\ pc' = "done"
            /\ trace' = IF verbose THEN Append(trace, Completed(iteration)) ELSE trace
            /\ UNCHANGED <<changes_made, cache, idx>>
    /\ UNCHANGED <<heap, config, heap0, graph, order, resolved, iteration, old_value,
                   max_depth, stack, first, second, verbose, other>>

\* The end of the for loop: break and return if the pass changed nothing
EndPass ==
    /\ pc = "for"
    /\ idx > Len(order)
    /\ IF ~changes_made
       THEN /\ outcome' = Returned(resolved)
            /\ pc' = "done"
            /\ trace' = IF verbose THEN Append(trace, Completed(iteration)) ELSE trace
            /\ UNCHANGED iteration
       ELSE iteration' = iteration + 1 /\ pc' = "while" /\ UNCHANGED <<outcome, trace>>
    /\ UNCHANGED <<heap, config, heap0, graph, order, resolved, idx, changes_made, old_value,
                   max_depth, cache, stack, first, second, verbose, other>>

\* The key-path is pushed before its value is looked up, and stays on the
\* stack when the look-up fails and _resolve_key_path returns
EnterKeyPathPushFirst ==
    /\ pc = "for"
    /\ idx <= Len(order)
    /\ LET key_path == order[idx]
           got == _get_nested_value(heap, resolved, key_path)
       IN /\ old_value' = _get_nested_value_safe(heap, resolved, key_path)
          /\ IF key_path \in cache
             THEN idx' = idx + 1 /\ UNCHANGED <<pc, stack, outcome>>
             ELSE IF Len(stack) >= max_depth
             THEN /\ outcome' = Raised(MaxRecursionError(max_depth, key_path))
                  /\ pc' = "done"
                  /\ UNCHANGED <<idx, stack>>
             ELSE /\ stack' = Append(stack, key_path)
                  /\ IF got.ok THEN pc' = "value" /\ UNCHANGED <<idx, outcome>>
                     ELSE idx' = idx + 1 /\ UNCHANGED <<pc, outcome>>
    /\ UNCHANGED <<heap, config, heap0, graph, order, resolved, iteration, changes_made,
                   max_depth, cache, first, second, verbose, trace, other>>

\* old_value, and _resolve_key_path until the key-path is pushed
EnterKeyPath ==
    /\ pc = "for"
    /\ idx <= Len(order)
    /\ LET key_path == order[idx]
           got == _get_nested_value(heap, resolved, key_path)
       IN /\ old_value' = _get_nested_value_safe(heap, resolved, key_path)
          /\ IF key_path \in cache
             THEN idx' = idx + 1 /\ UNCHANGED <<pc, stack, outcome>>
             ELSE IF Len(stack) >= max_depth
             THEN /\ outcome' = Raised(MaxRecursionError(max_depth, key_path))
                  /\ pc' = "done"
                  /\ UNCHANGED <<idx, stack>>
             ELSE IF ~got.ok
             THEN idx' = idx + 1 /\ UNCHANGED <<pc, stack, outcome>>
             ELSE /\ stack' = Append(stack, key_path)
                  /\ pc' = "value"
                  /\ UNCHANGED <<idx, outcome>>
    /\ UNCHANGED <<heap, config, heap0, graph, order, resolved, iteration, changes_made,
                   max_depth, cache, first, second, verbose, trace, other>>

\* The error is kept for later and the loop over the key-paths goes on
RaiseLater(e) == outcome' = Raised(e) /\ pc' = "for"

\* An exception raised under _resolve_key_path: nothing catches it, and it
\* leaves resolve
Raise(e) == outcome' = Raised(e) /\ pc' = "done"

\* A stack that keeps what was pushed
NoPop(s) == s

\* self.resolution_stack.pop()
Pop(s) == SubSeq(s, 1, Len(s) - 1)

\* The try block of _resolve_key_path and the comparison that follows it in
\* resolve: e is the exception raised, h the heap with the value set, differ
\* what old_value != new_value comes to
ResolveAndCompare(h, root, key_path, old) ==
    LET value == _get_nested_value(h, root, key_path).v
        r == _resolve_value(h, value, root, {})
        set == _set_nested_value(r.h, root, key_path, r.v)
        new_value == _get_nested_value_safe(set.h, root, key_path)
    IN IF r.e # NoErr THEN [e |-> r.e, h |-> h, differ |-> "eq"]
       ELSE IF set.e # NoErr THEN [e |-> set.e, h |-> h, differ |-> "eq"]
       ELSE [e |-> NoErr, h |-> set.h, differ |-> PyEq(set.h, old, new_value, {})]

\* What resolve goes on with once the try block has come to done: the finally,
\* the exception that leaves resolve, or the cache and changes_made
Leave(key_path, done) ==
    /\ stack' = Pop(stack)
    /\ IF done.e # NoErr
       THEN /\ Raise(done.e)
            /\ UNCHANGED <<heap, cache, idx, changes_made>>
       ELSE /\ heap' = done.h
            /\ cache' = cache \cup {key_path}
            /\ IF done.differ = "RecursionError"
               THEN /\ Raise(RecursionError)
                    /\ UNCHANGED <<idx, changes_made>>
               ELSE /\ changes_made' = (changes_made \/ done.differ = "ne")
                    /\ idx' = idx + 1
                    /\ pc' = "for"
                    /\ UNCHANGED outcome

\* The try block of _resolve_key_path, its finally, new_value and the comparison
ExitKeyPath ==
    /\ pc = "value"
    /\ Leave(order[idx], ResolveAndCompare(heap, resolved, order[idx], old_value))
    /\ UNCHANGED <<config, heap0, graph, order, resolved, iteration, old_value, max_depth,
                   first, second, verbose, trace, other>>

Next == Call \/ CheckCycles \/ Sort \/ While \/ EndPass \/ EnterKeyPath \/ ExitKeyPath

Spec == Init /\ [][Next]_vars

\* resolve on the trees that stand for the dependency graphs of three keys
InitGraphs == StartOn(DepHeaps, {DefaultMaxDepth})

SpecGraphs == InitGraphs /\ [][Next]_vars

----------------------------------------------------------------------------
(* A second call of resolve, on the same resolver *)

\* The locals of a finished call are gone (pc, outcome and the resolver's own
\* fields apart); first keeps what the finished call saw and answered
Recall(h, root, mode) ==
    /\ first' = [h |-> heap, config |-> config, outcome |-> outcome]
    /\ second' = mode
    /\ heap' = h
    /\ heap0' = h
    /\ config' = root
    /\ pc' = "call"
    /\ outcome' = Pending
    /\ graph' = <<>>
    /\ order' = <<>>
    /\ resolved' = NullV
    /\ iteration' = 0
    /\ idx' = 0
    /\ changes_made' = FALSE
    /\ old_value' = NullV
    /\ verbose' = IF mode = "toggled" THEN ~verbose ELSE verbose
    /\ UNCHANGED <<max_depth, cache, stack, trace>>

\* resolve(config) again
CallAgain ==
    /\ pc = "done"
    /\ second = "none"
    /\ Recall(heap, config, "same")
    /\ UNCHANGED other

\* The dict obj with its keys inserted in the order perm
Reordered(obj, perm) ==
    MapObj([i \in 1..Len(perm) |-> obj.ks[perm[i]]], [i \in 1..Len(perm) |-> obj.vs[perm[i]]])

\* resolve on a copy of config whose root keys were inserted in another order
CallPermuted ==
    /\ pc = "done"
    /\ second = "none"
    /\ \E perm \in SeqPerms(1..Len(heap[config.n].ks)) :
          /\ \E i \in 1..Len(perm) : perm[i] # i
          /\ LET c == _deep_copy(heap, config)
             IN Recall([c.h EXCEPT ![c.v.n] = Reordered(@, perm)], c.v, "permuted")
    /\ UNCHANGED other

\* resolve(resolve(config))
CallOnResult ==
    /\ pc = "done"
    /\ second = "none"
    /\ outcome.status = "returned"
    /\ Recall(heap, outcome.v, "result")
    /\ UNCHANGED other

\* resolver.verbose = not resolver.verbose; resolve(config)
CallToggled ==
    /\ pc = "done"
    /\ second = "none"
    /\ Recall(heap, config, "toggled")
    /\ UNCHANGED other

\* The heap h with its objects moved up by off addresses
Relocate(h, off) ==
    [a \in 1..Len(h) |->
        [h[a] EXCEPT !.vs = [i \in 1..Len(h[a].vs) |->
                                IF h[a].vs[i].t = "ref" THEN RefV(h[a].vs[i].n + off)
                                ELSE h[a].vs[i]]]]

\* Other trees the resolver is called on: the second makes resolve raise
\* after it has resolved (and cached) the key-path a
OtherConfigs ==
    {<<Leaf(PureRef(<<"b">>)), Leaf(StrV(<<Ch("X")>>))>>,
     <<Leaf(StrV(<<Ch("X")>>)), Leaf(PureRef(<<"z", "x">>))>>,
     <<[shape |-> "list", leaf |-> IntV(3)]>>}

\* resolve(another tree)
CallOther ==
    /\ pc = "done"
    /\ second = "none"
    /\ \E ds \in OtherConfigs :
          Recall(heap \o Relocate(ConfigHeap(ds), Len(heap)), RefV(Len(heap) + 1), "other")
    /\ UNCHANGED other

\* resolve(config) after the call on the other tree: first keeps what the
\* call on config, the first of the three, answered
CallBack ==
    /\ pc = "done"
    /\ second = "other"
    /\ second' = "back"
    /\ config' = first.config
    /\ heap0' = heap
    /\ pc' = "call"
    /\ outcome' = Pending
    /\ graph' = <<>>
    /\ order' = <<>>
    /\ resolved' = NullV
    /\ iteration' = 0
    /\ idx' = 0
    /\ changes_made' = FALSE
    /\ old_value' = NullV
    /\ UNCHANGED <<heap, first, max_depth, cache, stack, verbose, trace, other>>

NextAgain == Next \/ CallAgain \/ CallPermuted \/ CallOnResult

\* Two calls are followed on the configurations of a weight below the bound
InitAgain == Start({ds \in Configs : TotalWeight(ds) < MaxWeight} \cup Scenarios)

SpecAgain == InitAgain /\ [][NextAgain]_vars

\* Sequences of calls on one resolver: the same tree again, the same tree with
\* verbose changed, another tree and then the first again
NextSeq == Next \/ CallAgain \/ CallToggled \/ CallOther \/ CallBack

\* The trees of two keys at most, with two markers or containers at most, the
\* lists of two items and the chains
InitSeq ==
    \/ Start({ds \in Configs : Len(ds) <= 2 /\ TotalWeight(ds) <= 2} \cup Scenarios)
    \/ StartOn(Chains, MaxDepths)

SpecSeq == InitSeq /\ [][NextSeq]_vars

----------------------------------------------------------------------------
(* Two threads in resolve, on the same resolver *)

\* The locals of the run this thread is in
Locals ==
    [config |-> config, pc |-> pc, graph |-> graph, order |-> order, resolved |-> resolved,
     iteration |-> iteration, idx |-> idx, changes_made |-> changes_made,
     old_value |-> old_value, outcome |-> outcome]

\* resolve(config) once more, while another thread calls resolve on a tree of
\* its own: the fields of the resolver are the same object for both
CallPair ==
    /\ pc = "done"
    /\ second = "none"
    /\ \E ds \in OtherConfigs :
          /\ heap' = heap \o Relocate(ConfigHeap(ds), Len(heap))
          /\ other' = NewRun(RefV(Len(heap) + 1))
    /\ first' = [h |-> heap, config |-> config, outcome |-> outcome]
    /\ second' = "pair"
    /\ heap0' = heap'
    /\ pc' = "call"
    /\ outcome' = Pending
    /\ graph' = <<>>
    /\ order' = <<>>
    /\ resolved' = NullV
    /\ iteration' = 0
    /\ idx' = 0
    /\ changes_made' = FALSE
    /\ old_value' = NullV
    /\ UNCHANGED <<config, max_depth, cache, stack, verbose, trace>>

\* The interpreter switches to the other thread
Switch ==
    /\ second = "pair"
    /\ other.pc # "done"
    /\ other' = Locals
    /\ config' = other.config
    /\ pc' = other.pc
    /\ graph' = other.graph
    /\ order' = other.order
    /\ resolved' = other.resolved
    /\ iteration' = other.iteration
    /\ idx' = other.idx
    /\ changes_made' = other.changes_made
    /\ old_value' = other.old_value
    /\ outcome' = other.outcome
    /\ UNCHANGED <<heap, heap0, max_depth, cache, stack, first, second, verbose, trace>>

NextPair == Next \/ CallPair \/ Switch

\* The trees of two keys at most, with one marker or one container at most
InitPair ==
    StartOn({ConfigHeap(ds) : ds \in {c \in Configs : Len(c) <= 2 /\ TotalWeight(c) <= 1}},
            {1, DefaultMaxDepth})

SpecPair == InitPair /\ [][NextPair]_vars

----------------------------------------------------------------------------
(* ParameterLoader.load: the initial state is that of a loader constructed  *)
(* with resolve_references=True which has parsed the document and calls     *)
(* resolve on it, on the resolver it has constructed                        *)

\* The exceptions of the resolver load catches
Caught ==
    {"CircularReferenceError", "ReferenceResolutionError", "MaxRecursionError",
     "TemplateSyntaxError"}

\* The end of load, from the return of resolve on: an exception of the
\* resolver becomes a ValueError, any other leaves load as it is
LoadEnd ==
    /\ pc = "done"
    /\ second \in {"none", "resolving"}
    /\ second' = IF second = "none" THEN "loaded" ELSE "reloaded"
    /\ outcome' = IF outcome.status = "raised" /\ outcome.e.kind \in Caught
                  THEN Raised(ValueError(outcome.e)) ELSE outcome
    /\ UNCHANGED <<heap, config, heap0, pc, graph, order, resolved, iteration, idx,
                   changes_made, old_value, max_depth, cache, stack, first, verbose, trace,
                   other>>

\* A loader that calls its resolver whatever resolve_references is
LoadResolving ==
    /\ pc = "done"
    /\ second = "loaded"
    /\ \E resolve_references \in BOOLEAN :
          second' = IF resolve_references THEN "resolving" ELSE "literal"
    /\ first' = [h |-> heap, config |-> config, outcome |-> outcome]
    /\ heap' = heap \o Relocate(heap0, Len(heap))
    /\ heap0' = heap'
    /\ config' = RefV(Len(heap) + 1)
    /\ pc' = "call" /\ outcome' = Pending
    /\ cache' = {} /\ stack' = <<>> /\ trace' = <<>>
    /\ UNCHANGED <<graph, order, resolved, iteration, idx, changes_made, old_value,
                   max_depth, verbose, other>>

\* ParameterLoader(config_path, resolve_references).load() on the same file:
\* the document is parsed again, into a tree of its own (heap0 holds the
\* document as the first load parsed it). With resolve_references the new
\* resolver of the loader is called on it; without, self.resolver is None and
\* the tree is returned as it was parsed
Load ==
    /\ pc = "done"
    /\ second = "loaded"
    /\ first' = [h |-> heap, config |-> config, outcome |-> outcome]
    /\ heap' = heap \o Relocate(heap0, Len(heap))
    /\ heap0' = heap'
    /\ config' = RefV(Len(heap) + 1)
    /\ \E resolve_references \in BOOLEAN :
          /\ second' = IF resolve_references THEN "resolving" ELSE "literal"
          /\ IF resolve_references
             THEN /\ pc' = "call" /\ outcome' = Pending
                  /\ cache' = {} /\ stack' = <<>> /\ trace' = <<>>
             ELSE /\ pc' = "done" /\ outcome' = Returned(config')
                  /\ UNCHANGED <<cache, stack, trace>>
    /\ UNCHANGED <<graph, order, resolved, iteration, idx, changes_made, old_value,
                   max_depth, verbose, other>>

NextLoad == Next \/ LoadEnd \/ Load

\* The documents of two keys at most, the lists of two items, and the
\* document with a marker that is never closed
InitLoad ==
    \/ Start({ds \in Configs : Len(ds) <= 2} \cup Scenarios)
    \/ StartOn({<<MapObj(<<"a", "b">>, <<Unclosed, StrV(<<Ch("X")>>)>>)>>}, {DefaultMaxDepth})

SpecLoad == InitLoad /\ [][NextLoad]_vars

----------------------------------------------------------------------------
(* What the claims speak of *)

\* a == b for the tree a of heap h1 and the tree b of heap h2; a pair of
\* containers met again inside itself is taken as equal
RECURSIVE TreeEq(_, _, _, _, _)
TreeEq(h1, a, h2, b, onpath) ==
    IF a.t = "ref" /\ b.t = "ref"
    THEN LET x == h1[a.n]
             y == h2[b.n]
         IN /\ x.kind = y.kind
            /\ Len(x.vs) = Len(y.vs)
            /\ (x.kind = "map" => Range(x.ks) = Range(y.ks))
            /\ \/ <<a.n, b.n>> \in onpath
               \/ \A i \in 1..Len(x.vs) :
                     TreeEq(h1, x.vs[i], h2,
                            IF x.kind = "map" THEN MapGet(y, x.ks[i]) ELSE y.vs[i],
                            onpath \cup {<<a.n, b.n>>})
    ELSE IF a.t = "ref" \/ b.t = "ref" THEN FALSE
    ELSE IF a.t \in {"int", "bool"} /\ b.t \in {"int", "bool"} THEN a.n = b.n
    ELSE a = b

\* type(a) is type(b)
TypeOf(h, v) == IF v.t = "ref" THEN h[v.n].kind ELSE v.t

\* The dicts and lists of the tree v
RECURSIVE Objects(_, _, _)
Objects(h, v, seen) ==
    IF v.t # "ref" \/ v.n \in seen THEN seen
    ELSE LET Step[i \in 0..Len(h[v.n].vs)] ==
                 IF i = 0 THEN seen \cup {v.n} ELSE Objects(h, h[v.n].vs[i], Step[i - 1])
         IN Step[Len(h[v.n].vs)]

\* The strings of the tree v, wherever they are
AllStrings(h, v) ==
    IF v.t = "str" THEN {v}
    ELSE UNION {{h[a].vs[i] : i \in {j \in 1..Len(h[a].vs) : h[a].vs[j].t = "str"}} :
                    a \in Objects(h, v, {})}

\* The key-paths of the markers of a string, filters left aside
Markers(value) == {tok.p : tok \in {t \in Range(value.s) : t.k = "m"}}

\* The values a key-path leads to through dicts alone, with their key-paths
RECURSIVE MapLeaves(_, _, _)
MapLeaves(h, v, prefix) ==
    IF IsMap(h, v)
    THEN UNION {MapLeaves(h, h[v.n].vs[i], Append(prefix, h[v.n].ks[i])) :
                    i \in 1..Len(h[v.n].ks)}
    ELSE {[path |-> prefix, v |-> v]}

\* The reference graph of the tree, read off the tree itself: a key-path that
\* leads to a string or a list refers to the key-paths of the markers there
TrueNodes(h, root) == {l.path : l \in MapLeaves(h, root, <<>>)}
TrueDeps(h, root, path) ==
    UNION {Markers(str) : str \in AllStrings(h, _get_nested_value(h, root, path).v)}

\* The node sets of the cycles of that graph
TrueCycles(h, root) ==
    {S \in SUBSET TrueNodes(h, root) \ {{}} :
        \E q \in SeqPerms(S) :
            \A i \in 1..Len(q) : q[(i % Len(q)) + 1] \in TrueDeps(h, root, q[i])}

\* Those that run through strings alone
StringCycles(h, root) ==
    {S \in TrueCycles(h, root) : \A path \in S : _get_nested_value(h, root, path).v.t = "str"}

\* The root keys a root key refers to, by any marker of any string under it
KeyEdges(h, root) ==
    UNION {{<<h[root.n].ks[i], p[1]>> :
                p \in UNION {Markers(str) : str \in AllStrings(h, h[root.n].vs[i])}} :
               i \in 1..Len(h[root.n].ks)}

RECURSIVE Closure(_)
Closure(R) ==
    LET R2 == R \cup {<<xy[1][1], xy[2][2]>> : xy \in {pr \in R \X R : pr[1][2] = pr[2][1]}}
    IN IF R2 = R THEN R ELSE Closure(R2)

\* No root key refers to itself, directly or through other root keys
Acyclic(h, root) == \A e \in Closure(KeyEdges(h, root)) : e[1] # e[2]

\* The strings of the tree with a marker, and the three forms of them
MarkedStrings(h, root) == {str \in AllStrings(h, root) : Markers(str) # {}}
IsInterpolation(str) ==
    /\ ~IsPureReference(str)
    /\ \A i \in 1..Len(str.s) : WellFormed(str.s[i]) /\ str.s[i].f = <<>>

\* The key-paths the pure references (the interpolated strings) of the tree
\* name and the tree does not have
MissingPure(h, root) ==
    {PureReferencePath(str) :
        str \in {m \in MarkedStrings(h, root) :
                    IsPureReference(m) /\ ~_get_nested_value(h, root, PureReferencePath(m)).ok}}
MissingInterpolated(h, root) ==
    {p \in UNION {Markers(str) : str \in {m \in MarkedStrings(h, root) : IsInterpolation(m)}} :
        ~_get_nested_value(h, root, p).ok}

\* What a chain of pure references that starts at path ends at, in the tree as
\* the caller wrote it
RECURSIVE ChainEnd(_, _, _, _)
ChainEnd(h, root, path, fuel) ==
    LET g == _get_nested_value(h, root, path)
    IN IF g.ok /\ g.v.t = "str" /\ IsPureReference(g.v) /\ fuel > 0
       THEN ChainEnd(h, root, PureReferencePath(g.v), fuel - 1)
       ELSE g

\* The value at a key-path of the caller's tree, and of the tree returned
Given(path) == _get_nested_value(heap0, config, path).v
Result(path) == _get_nested_value(heap, outcome.v, path).v

\* The root dict is a chain: its first value is a string without a marker, and
\* every other value a string whose markers all name the key before it
IsChain(h, root) ==
    LET obj == h[root.n]
    IN /\ obj.ks # <<>>
       /\ obj.vs[1].t = "str" /\ Markers(obj.vs[1]) = {}
       /\ \A i \in 2..Len(obj.ks) :
              obj.vs[i].t = "str" /\ Markers(obj.vs[i]) = {<<obj.ks[i - 1]>>}

\* A chain whose references are all interpolated, "{{ values.<key before> }}X"
IsInterpolatedChain(h, root) ==
    /\ IsChain(h, root)
    /\ \A i \in 2..Len(h[root.n].ks) : h[root.n].vs[i] = Interpolated(<<h[root.n].ks[i - 1]>>)

\* The text "X...X", n times
Xs(n) == StrV([i \in 1..n |-> Ch("X")])

\* Every marker of every string of the tree is well formed and names a
\* key-path at which the tree holds a scalar
TargetsAreScalars(h, root) ==
    \A str \in MarkedStrings(h, root) :
        /\ \A i \in 1..Len(str.s) : WellFormed(str.s[i])
        /\ \A p \in Markers(str) :
               _get_nested_value(h, root, p).ok /\ _get_nested_value(h, root, p).v.t # "ref"

\* The reference expansion of a scalar of the tree: a pure reference stands
\* for the expansion of its target; any other string with markers for its
\* text with each marker replaced by the string form of the expansion of its
\* target, the filters of the marker applied to that string form
RECURSIVE Expansion(_, _, _)
Expansion(h, root, v) ==
    IF v.t # "str" \/ Markers(v) = {} THEN v
    ELSE IF IsPureReference(v)
    THEN Expansion(h, root, _get_nested_value(h, root, PureReferencePath(v)).v)
    ELSE LET Part(tok) ==
                 IF tok.k # "m" THEN <<tok>>
                 ELSE LET target == Expansion(h, root, _get_nested_value(h, root, tok.p).v)
                      IN ApplyFilters(tok.f, 1, StrV(PyStr(h, target))).v.s
         IN StrV(Flatten([i \in 1..Len(v.s) |-> Part(v.s[i])]))

\* The tree b of heap h is the tree a of heap h0 with every scalar replaced by
\* its expansion in the tree root of h0
RECURSIVE IsExpansionOf(_, _, _, _, _)
IsExpansionOf(h, b, h0, a, root) ==
    IF a.t = "ref"
    THEN /\ b.t = "ref"
         /\ h[b.n].kind = h0[a.n].kind
         /\ h[b.n].ks = h0[a.n].ks
         /\ Len(h[b.n].vs) = Len(h0[a.n].vs)
         /\ \A i \in 1..Len(h0[a.n].vs) : IsExpansionOf(h, h[b.n].vs[i], h0, h0[a.n].vs[i], root)
    ELSE b = Expansion(h0, root, a)

\* The iteration orders of the sets of the graph leave resolve no choice: no
\* node depends on two nodes, and one node at most depends on nothing
Unambiguous(h, root) ==
    LET g == _build_dependency_graph(h, root)
    IN /\ g # NoGraph
       /\ \A i \in 1..Len(g) : Cardinality(g[i].deps) <= 1
       /\ Cardinality({node \in AllNodes(g) : InDegree(g)[node] = 0}) <= 1

\* Two calls ended the same way: equal trees, or the same error
SameOutcome(h1, o1, h2, o2) ==
    /\ o1.status = o2.status
    /\ o1.status = "returned" => TreeEq(h1, o1.v, h2, o2.v, {})
    /\ o1.status = "raised" => o1.e = o2.e

\* Both threads are out of resolve; what the one whose tree was resolved alone
\* before has got
PairDone == second = "pair" /\ pc = "done" /\ other.pc = "done"
PairOutcome == IF config = first.config THEN outcome ELSE other.outcome

\* The strings of the tree with an expression jinja2 cannot parse: a marker
\* that is not well formed, or one that is never closed
MalformedStrings(h, root) ==
    {str \in AllStrings(h, root) :
        \E i \in 1..Len(str.s) : ~WellFormed(str.s[i]) \/ str.s[i] \in Range(Unclosed.s)}

\* The tree b of heap h has the shape of the tree a of heap h0 and its values,
\* but for the strings of a that hold a marker: the maps have the same keys,
\* the lists the same length, and every other scalar is the same value
RECURSIVE Framed(_, _, _, _)
Framed(h0, a, h, b) ==
    IF a.t = "ref"
    THEN /\ b.t = "ref"
         /\ h[b.n].kind = h0[a.n].kind
         /\ Len(h[b.n].vs) = Len(h0[a.n].vs)
         /\ Range(h[b.n].ks) = Range(h0[a.n].ks)
         /\ \A i \in 1..Len(h0[a.n].vs) :
                Framed(h0, h0[a.n].vs[i], h,
                       IF h0[a.n].kind = "map" THEN MapGet(h[b.n], h0[a.n].ks[i])
                       ELSE h[b.n].vs[i])
    ELSE _detect_references(a) # <<>> \/ b = a

\* The key-paths the markers of a value look up, in the order of the markers
LookedUp(value) ==
    IF value.t # "str" THEN <<>>
    ELSE LET ms == SelectSeq(value.s, IsMarker) IN [i \in 1..Len(ms) |-> ms[i].p]

\* What the scanner returns for a scalar, or for the items of a list together
ScannedIn(h, v) ==
    IF IsList(h, v)
    THEN UNION {Range(_detect_references(h[v.n].vs[i])) : i \in 1..Len(h[v.n].vs)}
    ELSE Range(_detect_references(v))

\* No element of the sequence occurs twice in it
NoRepetition(q) == \A i, j \in 1..Len(q) : q[i] = q[j] => i = j

\* The passes over the resolution order a finished run has made: none when
\* resolve returned before the loop; iteration counts the passes that changed
\* a value, and the loop is left by the pass that changed none, or by the limit
PassesMade == IF idx = 0 THEN 0 ELSE IF changes_made THEN iteration ELSE iteration + 1

\* No marker of the tree has a filter
Unfiltered(h, root) ==
    \A str \in MarkedStrings(h, root) : \A i \in 1..Len(str.s) : str.s[i].f = <<>>

\* A pass begins with an empty cache and takes the key-paths of the order one
\* after the other: the cache holds none but those the pass has been at
OncePerPass ==
    /\ (pc = "for" /\ idx = 1) => cache = {}
    /\ pc \in {"for", "value"} => cache \subseteq {order[j] : j \in 1..(idx - 1)}

\* How far a run has come: the part of resolve it is in, the passes behind it,
\* whether the pass at hand has begun, the position in the order, and whether
\* the key-path at that position is being resolved
Position ==
    <<CASE pc = "call" -> 0 [] pc = "graph" -> 1 [] pc = "sort" -> 2 [] pc = "done" -> 4
        [] OTHER -> 3,
      iteration,
      IF pc = "while" THEN 0 ELSE 1,
      idx,
      IF pc = "value" THEN 1 ELSE 0>>

\* p comes before q, the earlier components weighing more
ComesBefore(p, q) ==
    \E k \in 1..Len(p) : p[k] < q[k] /\ \A j \in 1..(k - 1) : p[j] = q[j]

\* The edges of a dependency graph, from a node to what it depends on, and
\* whether some node reaches itself along them
GraphEdges(g) == UNION {{<<g[i].node, d>> : d \in g[i].deps} : i \in 1..Len(g)}
HasCycle(g) == \E e \in Closure(GraphEdges(g)) : e[1] = e[2]

\* The tree b of heap h is the tree a of heap h0, value for value and key for key
RECURSIVE Literal(_, _, _, _)
Literal(h0, a, h, b) ==
    IF a.t = "ref"
    THEN /\ b.t = "ref"
         /\ h[b.n].kind = h0[a.n].kind
         /\ h[b.n].ks = h0[a.n].ks
         /\ Len(h[b.n].vs) = Len(h0[a.n].vs)
         /\ \A i \in 1..Len(h0[a.n].vs) : Literal(h0, h0[a.n].vs[i], h, h[b.n].vs[i])
    ELSE b = a

Succeeded == pc = "done" /\ outcome.status = "returned"
FailedWith(kind) == pc = "done" /\ outcome.status = "raised" /\ outcome.e.kind = kind

----------------------------------------------------------------------------
(* The claims *)

\* C1: a configuration whose strings refer to one another in a cycle makes
\* resolve fail with CircularReferenceError, and the cycle_path of the error,
\* as a set, is the node set of a cycle of the tree
C1_CyclesAreReported ==
    (pc = "done" /\ StringCycles(heap0, config) # {})
        => /\ FailedWith("CircularReferenceError")
           /\ Range(outcome.e.cyc) \in TrueCycles(heap0, config)

\* C1: resolve has returned {"a": "{{ values.a | lower }}"} as it was given
C1_FilteredSelfReferenceReturned ==
    /\ heap0 = ConfigHeap(<<Leaf(Filtered(<<"a">>))>>)
    /\ Succeeded
    /\ Result(<<"a">>) = Filtered(<<"a">>)

\* C2: in the tree resolve returns, a key-path whose value was a pure
\* reference, to an integer, a boolean, null or a list or to a chain of pure
\* references that ends at one, holds a value of the type of that target and
\* equal to what the key-path it names holds: it does not hold a string
C2_PureReferenceKeepsType ==
    Succeeded =>
        \A l \in MapLeaves(heap0, config, <<>>) :
            (l.v.t = "str" /\ IsPureReference(l.v)) =>
                LET target == PureReferencePath(l.v)
                    end == ChainEnd(heap0, config, target, Len(KeyNames))
                    here == _get_nested_value(heap, outcome.v, l.path)
                    there == _get_nested_value(heap, outcome.v, target)
                IN (end.ok /\ TypeOf(heap0, end.v) \in {"int", "bool", "null", "list"}) =>
                       /\ here.ok /\ there.ok
                       /\ TypeOf(heap, here.v) = TypeOf(heap0, end.v)
                       /\ TreeEq(heap, here.v, heap, there.v, {})

\* C2: resolve has returned for {"a": ["{{ values.b | lower }}"], "b":
\* "{{ values.a }}"} a tree in which b is a list that is not equal to a
C2_PureReferenceToListDiffers ==
    /\ heap0 = ConfigHeap(<<[shape |-> "list", leaf |-> Filtered(<<"b">>)], Leaf(PureRef(<<"a">>))>>)
    /\ Succeeded
    /\ IsList(heap, Result(<<"b">>))
    /\ ~TreeEq(heap, Result(<<"b">>), heap, Result(<<"a">>), {})

\* C3: a tree resolve returns holds no string, wherever it is, with a marker
\* whose key-path exists in that tree
C3_FullyExpanded ==
    Succeeded =>
        \A str \in AllStrings(heap, outcome.v) :
            \A p \in Markers(str) : ~_get_nested_value(heap, outcome.v, p).ok

\* C3: resolve has returned {"a": "X", "b": [{"x": "{{ values.a }}"}]} with
\* the marker still in it
C3_MarkerLeftInMapInList ==
    /\ heap0 = ConfigHeap(<<Leaf(StrV(<<Ch("X")>>)),
                             [shape |-> "listmap", leaf |-> PureRef(<<"a">>)]>>)
    /\ Succeeded
    /\ PureRef(<<"a">>) \in AllStrings(heap, Result(<<"b">>))

\* C4: for a configuration without a cycle, resolve called on the tree and
\* resolve called on the tree with its root keys inserted in another order
\* return equal trees
C4_OrderIndependent ==
    (/\ pc = "done"
     /\ second = "permuted"
     /\ Acyclic(heap0, config)
     /\ first.outcome.status = "returned"
     /\ outcome.status = "returned")
        => TreeEq(first.h, first.outcome.v, heap, outcome.v, {})

\* C4: {"a": [["{{ values.b | lower }}"], "{{ values.c }}"], "b":
\* "{{ values.c }}X", "c": "X"} was resolved to a = [["Xx"], "X"], and with its
\* keys in another order to a = [["xx"], "X"]
C4_OrderChangesResult ==
    /\ pc = "done"
    /\ second = "permuted"
    /\ Acyclic(heap0, config)
    /\ Given(<<"b">>) = Interpolated(<<"c">>)
    /\ first.outcome.status = "returned"
    /\ outcome.status = "returned"
    /\ StrV(<<Ch("X"), Ch("x")>>) \in AllStrings(first.h, first.outcome.v)
    /\ StrV(<<Ch("x"), Ch("x")>>) \in AllStrings(heap, Result(<<"a">>))

\* C5: two calls of resolve on the same tree return equal trees, or raise the
\* same error with the same payload
C5_Deterministic ==
    (pc = "done" /\ second = "same")
        => /\ outcome.status = first.outcome.status
           /\ outcome.status = "returned" => TreeEq(first.h, first.outcome.v, heap, outcome.v, {})
           /\ outcome.status = "raised" => outcome.e = first.outcome.e

\* C5: {"a": "{{ values.z.x }}", "b": "{{ values.c }}"} made one call raise
\* ReferenceResolutionError for values.c and the next for values.z.x
C5_ErrorNamesEitherReference ==
    /\ pc = "done"
    /\ second = "same"
    /\ Given(<<"a">>) = PureRef(<<"z", "x">>)
    /\ Given(<<"b">>) = PureRef(<<"c">>)
    /\ first.outcome = Raised(ReferenceResolutionError("values", <<"c">>))
    /\ outcome = Raised(ReferenceResolutionError("values", <<"z", "x">>))

\* C6: a pure reference to a key-path the tree does not have makes resolve
\* fail with ReferenceResolutionError, and the reference of the error is
\* "values." followed by that key-path (here: in a tree all of whose markers
\* are pure references, and unless the tree has a cycle that is reported)
C6_MissingPureReferenceIsNamed ==
    (/\ pc = "done"
     /\ MissingPure(heap0, config) # {}
     /\ \A str \in MarkedStrings(heap0, config) : IsPureReference(str)
     /\ ~FailedWith("CircularReferenceError"))
        => /\ FailedWith("ReferenceResolutionError")
           /\ outcome.e.text = "values"
           /\ outcome.e.path \in MissingPure(heap0, config)

\* C6: resolve has returned {"a": [{"x": "{{ values.b }}"}]}, which has no key b
C6_MissingReferenceInMapInListReturned ==
    /\ heap0 = ConfigHeap(<<[shape |-> "listmap", leaf |-> PureRef(<<"b">>)]>>)
    /\ Succeeded
    /\ PureRef(<<"b">>) \in AllStrings(heap, outcome.v)

\* C7: an interpolated string with a marker whose key-path the tree does not
\* have makes resolve fail with ReferenceResolutionError naming that key-path;
\* nothing is substituted for the marker (here: in a tree all of whose markers
\* stand in interpolated strings without filters, and unless the tree has a
\* cycle that is reported)
C7_MissingInterpolatedReferenceIsNamed ==
    (/\ pc = "done"
     /\ MissingInterpolated(heap0, config) # {}
     /\ \A str \in MarkedStrings(heap0, config) : IsInterpolation(str)
     /\ ~FailedWith("CircularReferenceError"))
        => /\ FailedWith("ReferenceResolutionError")
           /\ outcome.e.text = "values"
           /\ outcome.e.path \in MissingInterpolated(heap0, config)

\* C7: resolve has returned {"a": "X"} for {"a": "{{ values.c }}X"}
C7_MissingReferenceRenderedEmpty ==
    /\ heap0 = ConfigHeap(<<Leaf(Interpolated(<<"c">>))>>)
    /\ Succeeded
    /\ Result(<<"a">>) = StrV(<<Ch("X")>>)

\* C8: when resolve has returned or raised, every dict and list the caller
\* passed is as it was at the call, and the tree returned shares no dict and
\* no list with the caller's tree
C8_InputUntouchedAndUnshared ==
    pc = "done" =>
        /\ \A a \in Objects(heap0, config, {}) : heap[a] = heap0[a]
        /\ outcome.status = "returned" =>
               Objects(heap, outcome.v, {}) \cap Objects(heap0, config, {}) = {}

\* C8: resolve has returned the empty dict it was given
C8_EmptyConfigReturnedItself ==
    /\ heap0 = ConfigHeap(<<>>)
    /\ Succeeded
    /\ outcome.v = config

\* C9: resolve called on a tree that resolve returned returns a tree equal to it
C9_Idempotent ==
    (pc = "done" /\ second = "result")
        => /\ outcome.status = "returned"
           /\ TreeEq(first.h, first.outcome.v, heap, outcome.v, {})

\* C9: resolve returned {"a": "{{ values.b }}", "b": "{{ values.b }}"} for
\* {"a": "{{ values.b }}", "b": "{{ values.a | lower }}"}, and called on what
\* it returned it has raised CircularReferenceError
C9_ResultIsRejected ==
    /\ second = "result"
    /\ Given(<<"a">>) = PureRef(<<"b">>)
    /\ Given(<<"b">>) = PureRef(<<"b">>)
    /\ FailedWith("CircularReferenceError")

\* C10: resolve does not return after max_iterations passes the last of
\* which changed a value
C10_PassLimitIsAnError ==
    (pc = "done" /\ iteration >= max_iterations /\ changes_made) => outcome.status = "raised"

\* C10: resolve has returned for {"a": [["{{ values.a }}"]]} after five passes
\* that each changed a
C10_ReturnedWhileChanging ==
    /\ heap0 = ConfigHeap(<<[shape |-> "listlist", leaf |-> PureRef(<<"a">>)]>>)
    /\ Succeeded
    /\ iteration = max_iterations
    /\ changes_made

\* C11: a chain of references longer than max_depth makes resolve fail with
\* MaxRecursionError, which carries max_depth and a key-path of the chain
C11_LongChainsAreCaught ==
    (pc = "done" /\ IsChain(heap0, config) /\ Len(heap0[config.n].ks) > max_depth)
        => /\ FailedWith("MaxRecursionError")
           /\ outcome.e.n = max_depth
           /\ outcome.e.path \in {<<k>> : k \in Range(heap0[config.n].ks)}

\* C11: ConfigResolver(max_depth=1) has resolved the chain {"k1": "X", "k2":
\* "{{ values.k1 }}X", "k3": "{{ values.k2 }}X"} to the end
C11_LongChainResolved ==
    /\ heap0 = <<Chain(3, "plain")>>
    /\ max_depth = 1
    /\ Succeeded
    /\ Result(<<"k3">>) = Xs(3)

C13_OnlyTheFourErrors ==
    (pc = "done" /\ outcome.status # "returned")
        => /\ outcome.status = "raised"
           /\ outcome.e.kind \in {"CircularReferenceError", "ReferenceResolutionError",
                                  "MaxRecursionError", "TemplateSyntaxError"}

\* C13: resolve has raised TypeError for {"a": 3, "b": "{{ values.a | lower }}"}
C13_TypeErrorEscapes ==
    /\ heap0 = ConfigHeap(<<Leaf(IntV(3)), Leaf(Filtered(<<"a">>))>>)
    /\ FailedWith("TypeError")

\* C14: for a configuration without a cycle whose markers all name key-paths
\* that hold scalars, resolve returns the reference expansion of the tree:
\* every string with markers has become its text with each marker replaced by
\* the string form of the fully resolved target, filters applied, through
\* chains of references of any length
C14_ResultIsTheExpansion ==
    (pc = "done" /\ Acyclic(heap0, config) /\ TargetsAreScalars(heap0, config))
        => /\ Succeeded
           /\ IsExpansionOf(heap, outcome.v, heap0, config, config)

\* C14: {"k1": "X", "k2": "{{ values.k1 }}X", "k3": "{{ values.k2 }}X", "k4":
\* "{{ values.k3 | lower }}"} was resolved to k4 = "XXx", and not to "xxx"
C14_FilterAppliedToUnresolvedText ==
    /\ heap0 = <<Chain(4, "lower")>>
    /\ Expansion(heap0, config, Given(<<"k4">>)) = StrV(<<Ch("x"), Ch("x"), Ch("x")>>)
    /\ Succeeded
    /\ Result(<<"k4">>) = StrV(<<Ch("X"), Ch("X"), Ch("x")>>)

\* C15: the step in which the resolution of a key-path raises an error ends
\* the run with that error: the working copy, the cache, the position in the
\* order and the pass count stay as they are, and no step follows a run that
\* has ended (no later key-path is resolved or written, no pass begins)
C15_FailFast ==
    [][/\ outcome.status = "pending"
       /\ (pc \in {"for", "value"} /\ outcome'.status = "raised")
              => /\ pc' = "done"
                 /\ outcome'.e.kind # "none"
                 /\ UNCHANGED <<heap, resolved, cache, idx, iteration, changes_made>>]_vars

\* C15: resolve has raised the error of a key-path while a later key-path of
\* the order still holds a string with a marker
C15_LaterKeyPathLeftAlone ==
    /\ pc = "done"
    /\ outcome.status = "raised"
    /\ idx >= 1
    /\ \E j \in (idx + 1)..Len(order) :
          /\ order[j] \notin cache
          /\ _get_nested_value(heap, resolved, order[j]).ok
          /\ _detect_references(_get_nested_value(heap, resolved, order[j]).v) # <<>>

\* C16: a run of resolve that shares the resolver with a run of another
\* thread on another tree ends as it does alone (for the trees whose run
\* alone has one outcome only)
C16_RunsDoNotInterfere ==
    (PairDone /\ Unambiguous(first.h, first.config))
        => SameOutcome(first.h, first.outcome, heap, PairOutcome)

\* C16: {"a": "{{ values.b }}", "b": "X"} is resolved to a = "X" alone, and
\* was returned with a = "{{ values.b }}" by a run next to a run of another
\* thread
C16_ReturnedUnresolvedNextToARun ==
    /\ PairDone
    /\ first.h[first.config.n] = MapObj(<<"a", "b">>, <<PureRef(<<"b">>), StrV(<<Ch("X")>>)>>)
    /\ first.outcome.status = "returned"
    /\ _get_nested_value(first.h, first.outcome.v, <<"a">>).v = StrV(<<Ch("X")>>)
    /\ PairOutcome.status = "returned"
    /\ _get_nested_value(heap, PairOutcome.v, <<"a">>).v = PureRef(<<"b">>)

\* C17: a call of resolve that follows other calls on the same resolver, ended
\* by a return or by an error in the middle of a pass, starts from an empty
\* cache, an empty stack and a trace of its own; and it ends as the call on
\* the same tree ended on the new resolver (for the trees whose run has one
\* outcome only)
C17_CallsAreIndependent ==
    /\ (second # "none" /\ pc \in {"graph", "sort"})
           => /\ cache = {}
              /\ stack = <<>>
              /\ trace = IF verbose THEN GraphLines(graph) ELSE <<>>
    /\ (pc = "done" /\ second \in {"same", "back"} /\ Unambiguous(heap0, config))
           => SameOutcome(first.h, first.outcome, heap, outcome)

\* C17: a tree with a reference was resolved again as it was the first time,
\* after a call on another tree that raised ReferenceResolutionError with the
\* key-path a in the cache
C17_ResolvedAgainAfterAFailedCall ==
    /\ pc = "done"
    /\ second = "back"
    /\ \E a \in 1..Len(heap) :
          heap[a] = MapObj(<<"a", "b">>, <<StrV(<<Ch("X")>>), PureRef(<<"z", "x">>)>>)
    /\ Unambiguous(heap0, config)
    /\ MarkedStrings(heap0, config) # {}
    /\ <<"a">> \in Range(order)
    /\ Succeeded
    /\ first.outcome.status = "returned"

\* C18: resolve with verbose set ends as resolve without it ended on the same
\* tree, with an equal tree or the same error (for the trees whose run has one
\* outcome only)
C18_VerboseChangesNoResult ==
    (pc = "done" /\ second = "toggled" /\ Unambiguous(heap0, config))
        => /\ verbose /\ first.outcome.status # "pending"
           /\ SameOutcome(first.h, first.outcome, heap, outcome)

\* C18: a tree with a reference was resolved with verbose set, the trace
\* holds the lines of the run, and the run without verbose had returned too
C18_ResolvedWithTrace ==
    /\ pc = "done"
    /\ second = "toggled"
    /\ verbose
    /\ Unambiguous(heap0, config)
    /\ MarkedStrings(heap0, config) # {}
    /\ Succeeded
    /\ first.outcome.status = "returned"
    /\ Len(trace) >= 3
    /\ trace[Len(trace)] = Completed(iteration)

\* C19: a tree with a string whose expression is malformed makes resolve fail
\* with TemplateSyntaxError, which carries the text of that string (here: in
\* a tree whose other strings hold no marker, so that no other error comes
\* first)
C19_MalformedIsASyntaxError ==
    (/\ pc = "done"
     /\ MalformedStrings(heap0, config) # {}
     /\ MarkedStrings(heap0, config) \subseteq MalformedStrings(heap0, config))
        => /\ FailedWith("TemplateSyntaxError")
           /\ StrV(outcome.e.toks) \in MalformedStrings(heap0, config)

\* C19: resolve has returned {"a": [{"x": "{{ values.a b }}"}]} as it was given
C19_MalformedReturnedUnchanged ==
    /\ heap0 = ConfigHeap(<<[shape |-> "listmap", leaf |-> Malformed]>>)
    /\ Succeeded
    /\ AllStrings(heap, outcome.v) = {Malformed}

\* C20: the tree resolve returns has every map of the input with the same
\* keys, every list with the same length, and every scalar without a marker
\* (a number, a boolean, null, a plain string) with the same value at the
\* same place
C20_UnmarkedValuesKept ==
    Succeeded => Framed(heap0, config, heap, outcome.v)

\* C20: resolve has returned a tree in which a reference under a nested map
\* was replaced, next to a scalar without a marker
C20_ReferenceReplacedNextToScalar ==
    /\ Succeeded
    /\ \E l \in MapLeaves(heap0, config, <<>>) :
          /\ Len(l.path) = 2
          /\ _detect_references(l.v) # <<>>
          /\ Result(l.path) # l.v
    /\ \E l \in MapLeaves(heap0, config, <<>>) : l.v \in Scalars

\* C21: a loader constructed with resolve_references=False takes no step of
\* the resolver: load returns the document as it was parsed, every marker
\* still in it, and raises nothing. For a document without markers it returns
\* a tree equal to the one load returned with resolve_references=True
C21_DisabledLoadsTheDocument ==
    second = "literal" =>
        /\ pc = "done"
        /\ outcome.status = "returned"
        /\ Literal(first.h, first.config, heap, outcome.v)
        /\ MarkedStrings(heap0, config) = {} =>
               /\ first.outcome.status = "returned"
               /\ TreeEq(first.h, first.outcome.v, heap, outcome.v, {})

\* C21: a document whose reference the loader with resolve_references=True
\* had replaced was loaded with resolve_references=False, the marker in it
C21_MarkerLeftByDisabledLoad ==
    /\ second = "literal"
    /\ first.outcome.status = "returned"
    /\ Given(<<"a">>) = PureRef(<<"b">>)
    /\ _get_nested_value(first.h, first.outcome.v, <<"a">>).v = IntV(3)
    /\ Result(<<"a">>) = PureRef(<<"b">>)

\* C22: when the dependency graph of the tree has a cycle, resolve goes from
\* the graph to CircularReferenceError: no order is computed, no working copy
\* made, no key-path resolved, cached or written, whatever else the tree
\* holds (a reference to a key-path it does not have, a malformed expression)
C22_CycleIsReportedFirst ==
    (pc # "call" /\ HasCycle(_build_dependency_graph(heap0, config)))
        => /\ pc \in {"graph", "done"}
           /\ order = <<>> /\ resolved = NullV /\ heap = heap0
           /\ cache = {} /\ stack = <<>> /\ idx = 0 /\ iteration = 0
           /\ pc = "done" =>
                  /\ FailedWith("CircularReferenceError")
                  /\ outcome.e.cyc # <<>>
                  /\ Range(outcome.e.cyc) \subseteq AllNodes(graph)

\* C22: a tree with a key-path that refers to itself, a reference to a
\* key-path it does not have and a malformed expression has made resolve
\* raise CircularReferenceError
C22_CycleReportedBeforeTheOtherErrors ==
    /\ HasCycle(graph)
    /\ MissingPure(heap0, config) # {}
    /\ Malformed \in AllStrings(heap0, config)
    /\ FailedWith("CircularReferenceError")
    /\ resolved = NullV

\* C23: for a dependency graph without a cycle, the order _topological_sort
\* returns holds every node of the graph, the key-paths that are referenced
\* and not declared included, once each, and every node after all the nodes
\* it depends on
C23_OrderIsTopological ==
    (pc \notin {"call", "graph", "sort"} /\ ~HasCycle(graph))
        => /\ Range(order) = AllNodes(graph)
           /\ Len(order) = Cardinality(AllNodes(graph))
           /\ \A i \in 1..Len(order) :
                  \A d \in GraphDeps(graph, order[i]) : \E j \in 1..(i - 1) : order[j] = d

\* C23: the graph k1 -> {k2, k3}, k2 -> {k3, k4}, k3 -> {k4}, in which k4 is
\* not declared, was sorted to k4, k3, k2, k1
C23_SortedDiamond ==
    /\ pc = "while"
    /\ AllNodes(graph) = {<<"k1">>, <<"k2">>, <<"k3">>, <<"k4">>}
    /\ GraphDeps(graph, <<"k1">>) = {<<"k2">>, <<"k3">>}
    /\ GraphDeps(graph, <<"k2">>) = {<<"k3">>, <<"k4">>}
    /\ GraphDeps(graph, <<"k3">>) = {<<"k4">>}
    /\ order = <<<<"k4">>, <<"k3">>, <<"k2">>, <<"k1">>>>

\* C24: for every scalar of the tree the graph was built from, the scanner
\* returns the key-paths its markers look up, that of a marker with filters
\* being the key-path of the marker without them; it returns nothing for a
\* value that is not a string and for a string without markers, and it
\* returns the key-paths that the tree does not have like the others
C24_ScannerReturnsTheKeyPaths ==
    (pc # "call" /\ ~Falsy(heap0, config))
        => \A l \in MapLeaves(heap0, config, <<>>) :
               l.v.t # "ref" => _detect_references(l.v) = LookedUp(l.v)

\* C24: for "{{ values.a | lower }}" in {"a": "X", "b": "{{ values.a | lower }}"}
\* the scanner has returned "a | lower", which is what b depends on in the graph
C24_FilterTextInTheKeyPath ==
    /\ heap0 = ConfigHeap(<<Leaf(StrV(<<Ch("X")>>)), Leaf(Filtered(<<"a">>))>>)
    /\ pc = "graph"
    /\ LookedUp(Given(<<"b">>)) = <<<<"a">>>>
    /\ _detect_references(Given(<<"b">>)) = <<<<"a | lower">>>>
    /\ GraphDeps(graph, <<"b">>) = {<<"a | lower">>}

\* C25: every marker of every string of the tree, wherever the string is (in
\* a nested map, in a list, in a map inside a list, in a list inside a list),
\* has what the scanner returns for it in the dependency set of some node of
\* the graph
C25_EveryMarkerIsInTheGraph ==
    (pc # "call" /\ ~Falsy(heap0, config))
        => \A str \in AllStrings(heap0, config) :
               Range(_detect_references(str)) \subseteq UNION {graph[i].deps : i \in 1..Len(graph)}

\* C25: the graph built for {"a": [["{{ values.a }}"]]} has the node a with
\* no dependency, and resolve has gone on to the resolution order
C25_MarkerInListInListNotSeen ==
    /\ heap0 = ConfigHeap(<<[shape |-> "listlist", leaf |-> PureRef(<<"a">>)]>>)
    /\ PureRef(<<"a">>) \in AllStrings(heap0, config)
    /\ pc = "sort"
    /\ graph = <<[node |-> <<"a">>, deps |-> {}]>>

\* C26: the graph has one node for each scalar and each list that a key-path
\* leads to through maps, and no other; the node is that key-path, and its
\* dependency set what the scanner returns for the scalar, or for the items of
\* the list together. Every node of the graph is a key-path of the tree, and
\* the tree is after the building of the graph as it was before
C26_GraphMirrorsTheTree ==
    (pc \in {"graph", "sort"} /\ ~Falsy(heap0, config))
        => /\ Range(GraphKeys(graph)) = {JoinPath(l.path) : l \in MapLeaves(heap0, config, <<>>)}
           /\ \A l \in MapLeaves(heap0, config, <<>>) :
                  GraphDeps(graph, JoinPath(l.path)) = ScannedIn(heap0, l.v)
           /\ \A i \in 1..Len(graph) : _get_nested_value(heap0, config, graph[i].node).ok
           /\ heap = heap0

\* C26: the graph built for {"a": [{"x": 3}]} has the one node a.x, which is
\* no key-path of the tree, and no node for the list a
C26_NodeOfNoKeyPath ==
    /\ heap0 = ConfigHeap(<<[shape |-> "listmap", leaf |-> IntV(3)]>>)
    /\ pc = "graph"
    /\ GraphKeys(graph) = <<<<"a", "x">>>>
    /\ ~_get_nested_value(heap0, config, <<"a", "x">>).ok
    /\ IsList(heap0, Given(<<"a">>))

\* C27: the cycle_path of a CircularReferenceError holds each key-path of the
\* cycle once: each element depends on the next and the last on the first, and
\* the first element is repeated at the end of the display of the message only
C27_CyclePathHoldsEachNodeOnce ==
    FailedWith("CircularReferenceError") =>
        LET cycle_path == outcome.e.cyc
            n == Len(cycle_path)
        IN /\ n >= 1
           /\ NoRepetition(cycle_path)
           /\ \A i \in 1..n : cycle_path[(i % n) + 1] \in GraphDeps(graph, cycle_path[i])
           /\ CycleDisplay(cycle_path)[n + 1] = cycle_path[1]
           /\ NoRepetition(Tail(CycleDisplay(cycle_path)))

\* C27: for {"a": "{{ values.b }}", "b": "{{ values.a }}"} resolve has raised
\* CircularReferenceError with the cycle_path a, b, a, which the message
\* displays as a, b, a, a
C27_FirstNodeTwiceInCyclePath ==
    /\ heap0 = ConfigHeap(<<Leaf(PureRef(<<"b">>)), Leaf(PureRef(<<"a">>))>>)
    /\ FailedWith("CircularReferenceError")
    /\ outcome.e.cyc = <<<<"a">>, <<"b">>, <<"a">>>>
    /\ CycleDisplay(outcome.e.cyc) = <<<<"a">>, <<"b">>, <<"a">>, <<"a">>>>

\* C28: the resolution stack holds one key-path at most. While the value of a
\* key-path is resolved it holds that key-path; at every other point of the
\* run it is empty: between two key-paths, between two passes, and when
\* resolve has returned or has raised, from inside a resolution too
C28_StackHoldsTheKeyPathInHand ==
    /\ Len(stack) <= 1
    /\ pc = "value" => stack = <<order[idx]>>
    /\ pc # "value" => stack = <<>>

\* C28: resolve has raised ReferenceResolutionError from the resolution of a
\* value, after other key-paths were resolved, and the stack is empty
C28_StackEmptyAfterARaise ==
    /\ FailedWith("ReferenceResolutionError")
    /\ idx >= 1
    /\ cache # {}
    /\ order[idx] \notin cache
    /\ stack = <<>>

\* C29: for a tree without a cycle whose markers have no filter and name
\* key-paths that hold scalars, the first pass over the resolution order
\* brings every value to its final value: the second pass changes nothing, no
\* third pass begins, and resolve returns after two passes, or after one pass
\* when the tree has no marker, whatever the length of the chains of references
C29_TwoPasses ==
    (Acyclic(heap0, config) /\ Unfiltered(heap0, config) /\ TargetsAreScalars(heap0, config))
        => /\ iteration <= 1
           /\ (iteration = 1 /\ pc \in {"for", "value", "done"}) => ~changes_made
           /\ pc = "done" =>
                  /\ Succeeded
                  /\ PassesMade = IF MarkedStrings(heap0, config) = {} THEN 1 ELSE 2

\* C29: {"a": "X", "b": [{"x": "{{ values.a }}"}]} was returned after one
\* pass, which changed nothing, with the marker in it
C29_OnePassWithAMarkerLeft ==
    /\ heap0 = ConfigHeap(<<Leaf(StrV(<<Ch("X")>>)),
                             [shape |-> "listmap", leaf |-> PureRef(<<"a">>)]>>)
    /\ Acyclic(heap0, config) /\ Unfiltered(heap0, config) /\ TargetsAreScalars(heap0, config)
    /\ Succeeded
    /\ PassesMade = 1
    /\ PureRef(<<"a">>) \in AllStrings(heap, outcome.v)

\* C30: every run of resolve ends, by a return or by an error: each step
\* takes the run further in a course that has an end (the parts of resolve,
\* five passes at most, the key-paths of the order one after the other in each
\* pass). A pass begins with an empty cache and is at each key-path once, and
\* the resolution of every value comes to its end: no recursion goes on until
\* the interpreter stops it, for a reference to a map or a list that holds a
\* reference back into the container it stands in either
C30_RunsTerminate ==
    [][/\ ComesBefore(Position, Position')
       /\ iteration' <= max_iterations
       /\ idx' <= Len(order') + 1
       /\ OncePerPass'
       /\ ~FailedWith("RecursionError")']_vars

\* C30: for {"a": {"x": "{{ values.a }}"}} the first pass has made a map that
\* holds itself, and the second pass has ended in RecursionError
C30_RecursionWithoutEnd ==
    /\ heap0 = ConfigHeap(<<[shape |-> "map", leaf |-> PureRef(<<"a">>)]>>)
    /\ iteration = 1
    /\ FailedWith("RecursionError")

====
